---- MODULE Spec2Model ----
(***************************************************************************)
(* A model of the migration orchestrators of the oncall repository.       *)
(*                                                                         *)
(* The module holds several state machines, one per part of the program,  *)
(* each with its own specification:                                        *)
(*   SpecSched       the FK dependency scheduler (topological_sort and      *)
(*                   group_tables_by_dependency_level) on drawn inputs      *)
(*   SpecMigrateAll  AsyncMySQLMigrator.migrate_all: FK levels, one         *)
(*                   semaphore per level, asyncio.gather as the barrier     *)
(*   SpecRun         the relational `run` command over a plan of database   *)
(*                   jobs (parallel and sequential path)                    *)
(*   SpecTableJob    AsyncMySQLMigrator.migrate_table_with_progress with    *)
(*                   _insert_batch, against a source cursor and a target    *)
(*   SpecWarehouse   TrinoMigrator.migrate_table / migrate_schema for one    *)
(*                   table: the choice of the method, the s3_copy job and    *)
(*                   the insert_select job with its parallel batches         *)
(*   SpecCopier      S3Copier.copy_prefix, copy_partitions and verify_copy   *)
(*                   on buckets of keys (strings of characters)              *)
(*   SpecCache       DataCache.save by concurrent savers, exists and load    *)
(*   SpecWhere       normalize_where and build_user_id_where on drawn texts  *)
(*   SpecPlan        the front of the relational run: load_yaml_config,      *)
(*                   expand_dynamic_databases, the choice of the tables      *)
(*   SpecWarehouseRun  the warehouse `run` over the tables and the schema of *)
(*                   a plan                                                  *)
(*   SpecObjectCopy  TrinoMigrator.migrate_table_s3_copy step by step, on    *)
(*                   the objects of the source and the target bucket        *)
(*   SpecExtractLoad calls of migrate_table_insert_select with row filters  *)
(*                   over one cache directory                                *)
(*   SpecSessions    the machines that open sessions: the table job, the    *)
(*                   database jobs of SpecRun, and execute_batch             *)
(* A specification leaves the variables of the other parts at their idle   *)
(* values.                                                                 *)
(*                                                                         *)
(* Table names are modelled as the integers 1..NumNames; the integer order *)
(* stands for the order Python's sort gives the names.                     *)
(***************************************************************************)
EXTENDS Integers, Sequences, FiniteSets, TLC

\* ------------------------------------------------------------------ bounds
\* table names of the scheduler inputs
NumNames == 3
\* FK rows (child, parent) of the scheduler inputs
MaxFkRows == 3
\* tables of one database job (migrate_all)
NumJobTables == 3
\* FK rows among the tables of one database job
MaxJobFkRows == 2
\* values of max_table_workers
MaxTableWorkers == 2
\* database jobs of a plan (all_db_configs)
MaxDbs == 2
\* values of max_workers
MaxDbWorkers == 2
\* tables of a database job of the plan
MaxDbTables == 1
\* rows the source query of a table job yields
MaxRows == 3
\* values of batch_size
MaxBatchSize == 2
\* rows the extraction of a warehouse table yields
MaxWhRows == 3
\* TrinoMigrator.batch_size
MaxWhBatchSize == 2
\* values of TrinoMigrator.parallel_inserts
MaxParallelInserts == 2
\* objects under the location of a warehouse table
MaxWhFiles == 2
\* objects in the source bucket of the copier
MaxObjects == 2
\* sizes of an object, from 1
MaxObjectSize == 2
\* concurrent calls of DataCache.save for one source table
MaxSavers == 2
\* characters of a WHERE text
MaxWhereLen == 5
\* user ids of one call of build_user_id_where
MaxUserIds == 2
\* characters of the pattern of a dynamic database entry
MaxPatternLen == 4
\* rows the lookup query returns
MaxLookupRows == 2
\* entries under tables of a warehouse plan
MaxPlanTables == 2
\* tables of the schema of a warehouse plan
MaxSchemaTables == 2
\* rows of a table of a warehouse plan
MaxPlanRows == 2
\* partitions of a table of a warehouse plan
MaxPartitions == 2
\* calls of migrate_table_insert_select over one cache directory
MaxElJobs == 2

\* ------------------------------------------------------- program constants
\* the error strings a table job keeps (migrator.py lines 514 and 523)
MaxErrors == 5
\* execute_batch (trino migrator.py lines 476-478)
max_retries == 8
min_wait_ms == 200
max_wait_ms == 120000
\* TrinoMigrator.__init__ (trino migrator.py lines 92-93)
default_batch_size == 1000
default_parallel_inserts == 4
\* S3Copier.copy_partitions (s3_copier.py line 241)
default_max_parallel == 5

VARIABLES
    \* scheduler: the inputs, the dict handed to the two functions, the results
    tables, fkRows, dependencies, sortResult, levelResult, schedPc,
    \* migrate_all: tables_config, the FK rows of the source, max_table_workers,
    \* levels, level_idx (from 1), the task of each table, each task's result,
    \* the level's semaphore, results, the position in migrate_all
    maTables, maFkRows, maWorkers, maLevels, maLevelIdx, maTask, maTaskResult,
    maSem, maResults, maPc,
    \* run: len(all_db_configs), use_parallel, workers, dry_run, the state of each
    \* database job, the semaphore, the index of the sequential loop,
    \* all_results, the position in run
    runN, runParallel, runWorkers, runDryRun, job, runSem, runIdx, runAllResults,
    runPc,
    \* table job: the rows the source query yields (1..tjRows, in cursor order),
    \* batch_size, create_table, truncate, the rows of the target table (by
    \* key), the rows this job added to the target, result, batch, the row-by-row
    \* retry (next row, inserted so far), the operations that raised, whether
    \* the source connection is open, whether the target connection is held,
    \* whether the commit was executed, the position in the job
    tjRows, tjBatchSize, tjCreate, tjTruncate, tjTarget, tjAdded, tjResult,
    tjBatch, tjRetry, tjRaised, tjSrcOpen, tjTgtHeld, tjCommitted, tjPc,
    \* the TRUNCATE TABLE statements the table job executed
    tjTruncates,
    \* the batches the table job passed to executemany, in order
    tjBatches,
    \* warehouse table job: the job and the migrator's settings, what the
    \* dispatch hands to the strategy, the position, whether the cache entry of
    \* the source table exists, the kinds of statements and object operations
    \* done on the target, len(data) (-1 before the extraction), the batches,
    \* inserted, the outcome of the object copies, the MigrationResult
    whJob, whCall, whPc, whCache, whEffects, whData, whBatches, whInserted,
    whCopy, whResult,
    \* copier: the objects of the source and of the target bucket (key -> size),
    \* the copy_prefix calls (source prefix, target prefix), the object copies
    \* submitted and not finished, the CopyResults, the report of verify_copy,
    \* the position
    cpSource, cpTarget, cpCalls, cpTasks, cpResults, cpVerify, cpPc,
    \* cache: the data file and the metadata file of one cache entry, the
    \* position of each saver
    caData, caMeta, caSaver,
    \* the WHERE helpers: the call (function, arguments), the value returned,
    \* the position
    fnCall, fnResult, fnPc,
    \* the plan of the relational run: the YAML document, the loaded
    \* MigrationYAMLConfig, all_db_configs, the index of the database job (from 1),
    \* the names in tables_config of each job called, the connections opened and
    \* queries executed, where a configuration error was reported, the position
    plPlan, plConfig, plConfigs, plIdx, plSelected, plIo, plReport, plPc,
    \* the warehouse run: the plan, batch_size and parallel_inserts of the
    \* migrator, the position, the table jobs started, the strategy call in
    \* progress, the jobs whose metadata extraction raised, the results of
    \* migrate_schema, summary.results, the exit code of the process (-1: running)
    wrPlan, wrMigrator, wrPc, wrStarted, wrJob, wrFailed, wrSummary, wrResults, wrExit,
    \* object copy job (migrate_table_s3_copy): the call and the settings of the
    \* migrator, the objects of each bucket (key -> content), the copy_object tasks,
    \* total_files, the S3 writes and SQL statements done so far in order, the
    \* MigrationResult, the position in the function
    ocJob, ocBuckets, ocTasks, ocFiles, ocLog, ocResult, ocPc,
    \* extract-load jobs over one cache directory (migrate_table_insert_select):
    \* the entries of the cache by path (the rows, and the filter they were
    \* extracted with, which the entry does not store), the call, data, the rows
    \* in the target table of the call, the MigrationResult, the calls made, the
    \* position in the function
    elCache, elJob, elData, elInserted, elResult, elJobs, elPc,
    \* execute_batch of one batch: attempt, the state of client, the connections
    \* to the target engine that are open, the text of the exception, the value
    \* returned (-1: none yet), the position in the function
    ebAttempt, ebClient, ebOpen, ebError, ebReturn, ebPc

schedVars == <<tables, fkRows, dependencies, sortResult, levelResult, schedPc>>
maVars == <<maTables, maFkRows, maWorkers, maLevels, maLevelIdx, maTask,
            maTaskResult, maSem, maResults, maPc>>

runVars == <<runN, runParallel, runWorkers, runDryRun, job, runSem, runIdx,
             runAllResults, runPc>>

tjVars == <<tjRows, tjBatchSize, tjCreate, tjTruncate, tjTarget, tjAdded,
            tjResult, tjBatch, tjRetry, tjRaised, tjSrcOpen, tjTgtHeld,
            tjCommitted, tjTruncates, tjBatches, tjPc>>

whVars == <<whJob, whCall, whPc, whCache, whEffects, whData, whBatches,
            whInserted, whCopy, whResult>>

cpVars == <<cpSource, cpTarget, cpCalls, cpTasks, cpResults, cpVerify, cpPc>>

caVars == <<caData, caMeta, caSaver>>

fnVars == <<fnCall, fnResult, fnPc>>

plVars == <<plPlan, plConfig, plConfigs, plIdx, plSelected, plIo, plReport, plPc>>

wrVars == <<wrPlan, wrMigrator, wrPc, wrStarted, wrJob, wrFailed, wrSummary, wrResults, wrExit>>

ocVars == <<ocJob, ocBuckets, ocTasks, ocFiles, ocLog, ocResult, ocPc>>

elVars == <<elCache, elJob, elData, elInserted, elResult, elJobs, elPc>>

ebVars == <<ebAttempt, ebClient, ebOpen, ebError, ebReturn, ebPc>>

vars == <<schedVars, maVars, runVars, tjVars, whVars, cpVars, caVars, fnVars, plVars, wrVars, ocVars, elVars, ebVars>>

\* the variables the actions of one part leave alone
NotSched == <<maVars, runVars, tjVars, whVars, cpVars, caVars, fnVars, plVars, wrVars, ocVars, elVars, ebVars>>
NotMa == <<schedVars, runVars, tjVars, whVars, cpVars, caVars, fnVars, plVars, wrVars, ocVars, elVars, ebVars>>
NotRun == <<schedVars, maVars, tjVars, whVars, cpVars, caVars, fnVars, plVars, wrVars, ocVars, elVars, ebVars>>
NotTj == <<schedVars, maVars, runVars, whVars, cpVars, caVars, fnVars, plVars, wrVars, ocVars, elVars, ebVars>>
NotWh == <<schedVars, maVars, runVars, tjVars, cpVars, caVars, fnVars, plVars, wrVars, ocVars, elVars, ebVars>>
NotCp == <<schedVars, maVars, runVars, tjVars, whVars, caVars, fnVars, plVars, wrVars, ocVars, elVars, ebVars>>
NotCa == <<schedVars, maVars, runVars, tjVars, whVars, cpVars, fnVars, plVars, wrVars, ocVars, elVars, ebVars>>
NotFn == <<schedVars, maVars, runVars, tjVars, whVars, cpVars, caVars, plVars, wrVars, ocVars, elVars, ebVars>>
NotPl == <<schedVars, maVars, runVars, tjVars, whVars, cpVars, caVars, fnVars, wrVars, ocVars, elVars, ebVars>>
NotWr == <<schedVars, maVars, runVars, tjVars, whVars, cpVars, caVars, fnVars, plVars, ocVars, elVars, ebVars>>
NotOc == <<schedVars, maVars, runVars, tjVars, whVars, cpVars, caVars, fnVars, plVars, wrVars, elVars, ebVars>>
NotEl == <<schedVars, maVars, runVars, tjVars, whVars, cpVars, caVars, fnVars, plVars, wrVars, ocVars, ebVars>>
NotEb == <<schedVars, maVars, runVars, tjVars, whVars, cpVars, caVars, fnVars, plVars, wrVars, ocVars, elVars>>

\* the result statuses of a relational table job
Status == {"success", "warning", "error"}

\* ----------------------------------------------------------------- helpers
Names == 1..NumNames

Range(s) == {s[i] : i \in DOMAIN s}

Min(S) == CHOOSE x \in S : \A y \in S : x <= y

\* Python's sorted() on a collection of distinct names
RECURSIVE sorted(_)
sorted(S) == IF S = {} THEN <<>> ELSE <<Min(S)>> \o sorted(S \ {Min(S)})

\* the sequences of distinct names: what a list of table names can be
RECURSIVE DistinctSeqs(_)
DistinctSeqs(S) ==
    {<<>>} \cup UNION {{<<x>> \o s : s \in DistinctSeqs(S \ {x})} : x \in S}

\* the sets of at most n FK rows over the names
RowSets(n) == {R \in SUBSET (Names \X Names) : Cardinality(R) <= n}

\* a dict table -> set of parents, its keys the tables that have a row
DictOf(rows) ==
    [t \in {r[1] : r \in rows} |-> {r[2] : r \in {x \in rows : x[1] = t}}]

\* dict.get(table, set())
DictGet(d, t) == IF t \in DOMAIN d THEN d[t] ELSE {}

\* the edges child -> parent a dict holds
EdgesOf(d) == {e \in Names \X Names : e[1] \in DOMAIN d /\ e[2] \in d[e[1]]}

\* no directed cycle among the nodes, self-loops included: the nodes without an
\* edge into the rest can be removed one layer after the other until none is left
RECURSIVE AcyclicOn(_, _)
AcyclicOn(R, nodes) ==
    IF nodes = {} THEN TRUE
    ELSE LET sinks == {a \in nodes : \A e \in R : e[1] = a => e[2] \notin nodes}
         IN sinks # {} /\ AcyclicOn(R, nodes \ sinks)

Acyclic(R) == AcyclicOn(R, {e[1] : e \in R} \cup {e[2] : e \in R})

\* --------------------------------------------------------------- scheduler
\* get_foreign_key_dependencies: the query returns the rows whose TABLE_NAME is
\* one of table_names; a row is kept when its parent is one of them too
get_foreign_key_dependencies(table_names, rows) ==
    IF table_names = <<>> THEN <<>>
    ELSE LET table_set == Range(table_names)
         IN [t \in table_set |->
                {r[2] : r \in {x \in rows : x[1] = t /\ x[2] \in table_set}}]

\* topological_sort, lines 80-86: the edges that count for Kahn's algorithm
kahn_edges(table_set, deps) ==
    {e \in EdgesOf(deps) :
        e[1] \in table_set /\ e[2] \in table_set /\ e[2] # e[1]}

\* topological_sort, lines 91-99: queue.sort(); pop(0); release the children
RECURSIVE kahn_loop(_, _, _, _)
kahn_loop(edges, in_degree, queue, result) ==
    IF queue = {} THEN result
    ELSE LET current == Min(queue)
             children == {e[1] : e \in {x \in edges : x[2] = current}}
             degree == [t \in DOMAIN in_degree |->
                          IF t \in children THEN in_degree[t] - 1
                          ELSE in_degree[t]]
         IN kahn_loop(edges, degree,
                      (queue \ {current}) \cup {c \in children : degree[c] = 0},
                      Append(result, current))

\* topological_sort, lines 101-104: the tables a cycle kept out of the result
cycle_remaining_dropped(tbls, result) == <<>>
cycle_remaining(tbls, result) ==
    SelectSeq(tbls, LAMBDA t : t \notin Range(result))

topological_sort(tbls, deps) ==
    LET table_set == Range(tbls)
        edges == kahn_edges(table_set, deps)
        in_degree == [t \in table_set |->
                         Cardinality({e \in edges : e[1] = t})]
        result == kahn_loop(edges, in_degree,
                            {t \in table_set : in_degree[t] = 0}, <<>>)
    IN IF Len(result) # Len(tbls)
       THEN result \o cycle_remaining(tbls, result)
       ELSE result

\* group_tables_by_dependency_level, line 129: deps & table_set - processed
unmet_deps_any_table(deps, table_set, processed) == deps \ processed
unmet_deps(deps, table_set, processed) == deps \cap (table_set \ processed)

\* group_tables_by_dependency_level, lines 123-139
RECURSIVE level_loop(_, _, _, _, _)
level_loop(table_set, deps, remaining, processed, levels) ==
    IF remaining = {} THEN levels
    ELSE LET ready == {t \in remaining :
                          unmet_deps(DictGet(deps, t), table_set, processed) = {}}
             current_level == IF ready = {} THEN remaining ELSE ready
         IN level_loop(table_set, deps, remaining \ current_level,
                       processed \cup current_level,
                       Append(levels, sorted(current_level)))

group_tables_by_dependency_level(tbls, deps) ==
    level_loop(Range(tbls), deps, Range(tbls), {}, <<>>)

\* every part but the scheduler at rest
SchedIdle ==
    /\ tables = <<>>
    /\ fkRows = {}
    /\ dependencies = <<>>
    /\ sortResult = <<>>
    /\ levelResult = <<>>
    /\ schedPc = "idle"

SchedInit ==
    /\ tables \in DistinctSeqs(Names)
    /\ fkRows \in RowSets(MaxFkRows)
    /\ dependencies = <<>>
    /\ sortResult = <<>>
    /\ levelResult = <<>>
    /\ schedPc = "input"

\* the dict is the one migrate_all and sort_tables_by_fk build from the FK rows
FetchDependencies ==
    /\ schedPc = "input"
    /\ dependencies' = get_foreign_key_dependencies(tables, fkRows)
    /\ schedPc' = "fetched"
    /\ UNCHANGED <<tables, fkRows, sortResult, levelResult>>
    /\ UNCHANGED NotSched

\* the dict is any caller's: keys and parents need not be tables of the list
GivenDependencies ==
    /\ schedPc = "input"
    /\ dependencies' = DictOf(fkRows)
    /\ schedPc' = "given"
    /\ UNCHANGED <<tables, fkRows, sortResult, levelResult>>
    /\ UNCHANGED NotSched

SortTablesByFk ==
    /\ schedPc \in {"fetched", "given"}
    /\ sortResult' = topological_sort(tables, dependencies)
    /\ schedPc' = IF schedPc = "fetched" THEN "fetched_sorted" ELSE "given_sorted"
    /\ UNCHANGED <<tables, fkRows, dependencies, levelResult>>
    /\ UNCHANGED NotSched

GroupLevels ==
    /\ schedPc \in {"fetched_sorted", "given_sorted"}
    /\ levelResult' = group_tables_by_dependency_level(tables, dependencies)
    /\ schedPc' = IF schedPc = "fetched_sorted" THEN "fetched_done" ELSE "given_done"
    /\ UNCHANGED <<tables, fkRows, dependencies, sortResult>>
    /\ UNCHANGED NotSched

SchedNext ==
    \/ FetchDependencies
    \/ GivenDependencies
    \/ SortTablesByFk
    \/ GroupLevels

\* ------------------------------------------------------------- migrate_all
JobNames == 1..NumJobTables

MaIdle ==
    /\ maTables = <<>>
    /\ maFkRows = {}
    /\ maWorkers = 0
    /\ maLevels = <<>>
    /\ maLevelIdx = 0
    /\ maTask = <<>>
    /\ maTaskResult = <<>>
    /\ maSem = 0
    /\ maResults = <<>>
    /\ maPc = "idle"

\* tables_config names the tables 1..n of the source database; the FK rows are
\* those of the source, max_table_workers is positive
MaInit ==
    /\ maTables \in {[i \in 1..n |-> i] : n \in 1..NumJobTables}
    /\ maFkRows \in {R \in SUBSET (JobNames \X JobNames) : Cardinality(R) <= MaxJobFkRows}
    /\ maWorkers \in 1..MaxTableWorkers
    /\ maLevels = <<>>
    /\ maLevelIdx = 0
    /\ maTask = [t \in Range(maTables) |-> "none"]
    /\ maTaskResult = [t \in Range(maTables) |-> "none"]
    /\ maSem = 0
    /\ maResults = <<>>
    /\ maPc = "start"

\* asyncio.Semaphore.acquire returns at once only while the value is positive
semaphore_always_free(value) == TRUE
semaphore_free(value) == value > 0

\* await asyncio.gather(...): every task of the level has finished
gather_any_finished(level, task) == \E i \in DOMAIN level : task[level[i]] = "done"
gather_finished(level, task) == \A i \in DOMAIN level : task[level[i]] = "done"

\* lines 539-543: the FK query succeeds; the tables are grouped into levels
MaGroupLevels ==
    /\ maPc = "start"
    /\ maLevels' = group_tables_by_dependency_level(maTables,
                      get_foreign_key_dependencies(maTables, maFkRows))
    /\ maLevelIdx' = 1
    /\ maPc' = "loop"
    /\ UNCHANGED <<maTables, maFkRows, maWorkers, maTask, maTaskResult, maSem, maResults>>
    /\ UNCHANGED NotMa

\* line 540: the FK query raises, and migrate_all with it
MaDependenciesFail ==
    /\ maPc = "start"
    /\ maPc' = "raised"
    /\ UNCHANGED <<maTables, maFkRows, maWorkers, maLevels, maLevelIdx, maTask,
                   maTaskResult, maSem, maResults>>
    /\ UNCHANGED NotMa

\* lines 563-583: a new semaphore, one task per table of the level
MaStartLevel ==
    /\ maPc = "loop"
    /\ maLevelIdx <= Len(maLevels)
    /\ maSem' = maWorkers
    /\ maTask' = [t \in DOMAIN maTask |->
                    IF t \in Range(maLevels[maLevelIdx]) THEN "pending" ELSE maTask[t]]
    /\ maPc' = "gather"
    /\ UNCHANGED <<maTables, maFkRows, maWorkers, maLevels, maLevelIdx,
                   maTaskResult, maResults>>
    /\ UNCHANGED NotMa

\* line 568: a task enters `async with semaphore` and calls
\* migrate_table_with_progress
MaAcquire(t) ==
    /\ maPc = "gather"
    /\ maTask[t] = "pending"
    /\ semaphore_free(maSem)
    /\ maSem' = maSem - 1
    /\ maTask' = [maTask EXCEPT ![t] = "running"]
    /\ UNCHANGED <<maTables, maFkRows, maWorkers, maLevels, maLevelIdx,
                   maTaskResult, maResults, maPc>>
    /\ UNCHANGED NotMa

\* lines 568-578: migrate_table_with_progress returns its result (it catches
\* every Exception), and the semaphore is released
MaTableReturns(t, status) ==
    /\ maPc = "gather"
    /\ maTask[t] = "running"
    /\ maSem' = maSem + 1
    /\ maTask' = [maTask EXCEPT ![t] = "done"]
    /\ maTaskResult' = [maTaskResult EXCEPT ![t] = status]
    /\ UNCHANGED <<maTables, maFkRows, maWorkers, maLevels, maLevelIdx, maResults, maPc>>
    /\ UNCHANGED NotMa

\* lines 580-601: gather returns; the results of the level are appended in the
\* order of the level
MaCollectLevel ==
    /\ maPc = "gather"
    /\ gather_finished(maLevels[maLevelIdx], maTask)
    /\ maResults' = maResults \o
          [i \in DOMAIN maLevels[maLevelIdx] |->
              [table |-> maLevels[maLevelIdx][i],
               status |-> maTaskResult[maLevels[maLevelIdx][i]]]]
    /\ maLevelIdx' = maLevelIdx + 1
    /\ maPc' = "loop"
    /\ UNCHANGED <<maTables, maFkRows, maWorkers, maLevels, maTask, maTaskResult, maSem>>
    /\ UNCHANGED NotMa

\* line 619: return results
MaReturn ==
    /\ maPc = "loop"
    /\ maLevelIdx > Len(maLevels)
    /\ maPc' = "done"
    /\ UNCHANGED <<maTables, maFkRows, maWorkers, maLevels, maLevelIdx, maTask,
                   maTaskResult, maSem, maResults>>
    /\ UNCHANGED NotMa

MaNext ==
    \/ MaGroupLevels
    \/ MaDependenciesFail
    \/ MaStartLevel
    \/ \E t \in JobNames : t \in DOMAIN maTask /\ MaAcquire(t)
    \/ \E t \in JobNames, s \in Status : t \in DOMAIN maTask /\ MaTableReturns(t, s)
    \/ MaCollectLevel
    \/ MaReturn

\* --------------------------------------------------------------------- run
RunIdle ==
    /\ runN = 0
    /\ runParallel = FALSE
    /\ runWorkers = 0
    /\ runDryRun = FALSE
    /\ job = <<>>
    /\ runSem = 0
    /\ runIdx = 0
    /\ runAllResults = <<>>
    /\ runPc = "idle"

\* a database job before migrate_single_database is called for it; pools is
\* the state of the connection pools of its migrator, which are created at
\* their first use
NewJob == [pc |-> "new", outcome |-> "none", createFailed |-> FALSE,
           created |-> FALSE, results |-> <<>>, pools |-> "none"]

\* the plan is loaded and expanded: lines 318-353
RunInit ==
    /\ runN \in 0..MaxDbs
    /\ runParallel \in BOOLEAN
    /\ runWorkers \in 1..MaxDbWorkers
    /\ runDryRun \in BOOLEAN
    /\ job = [i \in 1..runN |-> NewJob]
    /\ runSem = 0
    /\ runIdx = 0
    /\ runAllResults = <<>>
    /\ runPc = "start"

\* the result lists migrate_all can return for a job: one status per table
JobResultLists == UNION {[1..k -> Status] : k \in 1..MaxDbTables}

\* the results of job i as all_results holds them; db names the job a result
\* comes from
Tagged(i, results) == [k \in DOMAIN results |-> [db |-> i, status |-> results[k]]]

RECURSIVE ExtendAll(_, _)
ExtendAll(jobs, i) ==
    IF i > Len(jobs) THEN <<>>
    ELSE Tagged(i, jobs[i].results) \o ExtendAll(jobs, i + 1)

\* `async with semaphore` of run.migrate_with_semaphore
db_semaphore_always_free(value) == TRUE
db_semaphore_free(value) == value > 0

JobInProgress(i) == job[i].pc \in {"check", "create", "prepare", "migrate"}

\* line 355: the parallel path; lines 357-388: a semaphore and one task per job
RunStartParallel ==
    /\ runPc = "start"
    /\ runParallel /\ runN > 1
    /\ runSem' = runWorkers
    /\ runPc' = "gather"
    /\ UNCHANGED <<runN, runParallel, runWorkers, runDryRun, job, runIdx, runAllResults>>
    /\ UNCHANGED NotRun

\* line 397: the sequential path
RunStartSequential ==
    /\ runPc = "start"
    /\ ~(runParallel /\ runN > 1)
    /\ runIdx' = 1
    /\ runPc' = "seq"
    /\ UNCHANGED <<runN, runParallel, runWorkers, runDryRun, job, runSem, runAllResults>>
    /\ UNCHANGED NotRun

\* lines 360-368: a task enters the semaphore and calls migrate_single_database
RunAcquire(i) ==
    /\ runPc = "gather"
    /\ job[i].pc = "new"
    /\ db_semaphore_free(runSem)
    /\ runSem' = runSem - 1
    /\ job' = [job EXCEPT ![i].pc = "check"]
    /\ UNCHANGED <<runN, runParallel, runWorkers, runDryRun, runIdx, runAllResults, runPc>>
    /\ UNCHANGED NotRun

\* lines 399-406: the loop calls migrate_single_database for the next job
RunSeqCall ==
    /\ runPc = "seq"
    /\ runIdx <= runN
    /\ job[runIdx].pc = "new"
    /\ job' = [job EXCEPT ![runIdx].pc = "check"]
    /\ UNCHANGED <<runN, runParallel, runWorkers, runDryRun, runSem, runIdx,
                   runAllResults, runPc>>
    /\ UNCHANGED NotRun

\* a step inside migrate_single_database that does not end it; check and
\* create use connections of their own (migrator.py 218-256), the queries of
\* the preparation and migrate_all the pools
JobStep(i, from, to, created) ==
    /\ runPc \in {"gather", "seq"}
    /\ job[i].pc = from
    /\ job' = [job EXCEPT ![i].pc = to, ![i].created = created,
                          ![i].pools = IF to = "migrate" THEN "open" ELSE @]
    /\ UNCHANGED <<runN, runParallel, runWorkers, runDryRun, runSem, runIdx,
                   runAllResults, runPc>>
    /\ UNCHANGED NotRun

\* migrate_single_database ends (finally: migrator.close()). In the parallel
\* path the wrapper turns an exception into (name, []) (lines 380-382) and
\* releases the semaphore; in the sequential path the results are appended to
\* all_results (line 417) and an exception leaves the loop and run
JobEnds(i, from, outcome, createFailed, results) ==
    /\ runPc \in {"gather", "seq"}
    /\ job[i].pc = from
    /\ job' = [job EXCEPT ![i].pc = "done", ![i].outcome = outcome,
                          ![i].createFailed = createFailed, ![i].results = results,
                          ![i].pools = IF @ = "open" \/ from = "prepare"
                                       THEN "closed" ELSE @]
    /\ IF runPc = "gather"
       THEN /\ runSem' = runSem + 1
            /\ UNCHANGED <<runIdx, runAllResults, runPc>>
       ELSE /\ runPc' = IF outcome = "raised" THEN "raised" ELSE "seq"
            /\ runAllResults' = runAllResults \o Tagged(i, results)
            /\ runIdx' = runIdx + 1
            /\ UNCHANGED runSem
    /\ UNCHANGED <<runN, runParallel, runWorkers, runDryRun>>
    /\ UNCHANGED NotRun

\* line 86: check_database_exists raises (the target server cannot be reached)
JobCheckRaises(i) == JobEnds(i, "check", "raised", FALSE, <<>>)

\* line 86: the target database exists
JobDbExists(i) == JobStep(i, "check", "prepare", FALSE)

\* lines 86-89: the target database is missing
JobDbMissing(i) == JobStep(i, "check", "create", FALSE)

\* lines 90-92: create_database succeeds
JobCreateDb(i) == JobStep(i, "create", "prepare", TRUE)

\* create_database raises and nothing catches the exception
JobCreateRaises(i) == JobEnds(i, "create", "raised", TRUE, <<>>)

\* lines 93-95: create_database raises; the job returns []
JobCreateFails(i) == JobEnds(i, "create", "returned", TRUE, <<>>)

\* lines 97-179: a metadata query raises (SHOW TABLES, DESCRIBE, the FK query)
JobPrepareRaises(i) == JobEnds(i, "prepare", "raised", FALSE, <<>>)

\* lines 162-164: no table to migrate; the job returns []
JobNoTables(i) == JobEnds(i, "prepare", "returned", FALSE, <<>>)

\* lines 181-189: dry run; the job returns []
JobDryRun(i) == runDryRun /\ JobEnds(i, "prepare", "returned", FALSE, <<>>)

\* lines 97-192: the table configuration is built; migrate_all is called
JobPrepared(i) == ~runDryRun /\ JobStep(i, "prepare", "migrate", job[i].created)

\* lines 192-199: migrate_all returns one result per table
JobMigrated(i, results) == JobEnds(i, "migrate", "returned", FALSE, results)

\* line 192: migrate_all raises (its FK query fails)
JobMigrateRaises(i) == JobEnds(i, "migrate", "raised", FALSE, <<>>)

\* lines 385-395: gather returns; the results of the jobs are appended in the
\* order of the plan
RunGather ==
    /\ runPc = "gather"
    /\ \A i \in 1..runN : job[i].pc = "done"
    /\ runAllResults' = ExtendAll(job, 1)
    /\ runPc' = "finished"
    /\ UNCHANGED <<runN, runParallel, runWorkers, runDryRun, job, runSem, runIdx>>
    /\ UNCHANGED NotRun

\* lines 399-421: the sequential loop is over
RunSeqFinish ==
    /\ runPc = "seq"
    /\ runIdx > runN
    /\ runPc' = "finished"
    /\ UNCHANGED <<runN, runParallel, runWorkers, runDryRun, job, runSem, runIdx,
                   runAllResults>>
    /\ UNCHANGED NotRun

RunNext ==
    \/ RunStartParallel
    \/ RunStartSequential
    \/ RunSeqCall
    \/ RunGather
    \/ RunSeqFinish
    \/ \E i \in 1..runN : RunAcquire(i)
    \/ \E i \in 1..runN : JobCheckRaises(i)
    \/ \E i \in 1..runN : JobDbExists(i)
    \/ \E i \in 1..runN : JobDbMissing(i)
    \/ \E i \in 1..runN : JobCreateDb(i)
    \/ \E i \in 1..runN : JobCreateFails(i)
    \/ \E i \in 1..runN : JobPrepareRaises(i)
    \/ \E i \in 1..runN : JobNoTables(i)
    \/ \E i \in 1..runN : JobDryRun(i)
    \/ \E i \in 1..runN : JobPrepared(i)
    \/ \E i \in 1..runN : JobMigrateRaises(i)
    \/ \E i \in 1..runN, results \in JobResultLists : JobMigrated(i, results)

\* --------------------------------------------------------------- table job
TjIdle ==
    /\ tjRows = 0
    /\ tjBatchSize = 0
    /\ tjCreate = FALSE
    /\ tjTruncate = FALSE
    /\ tjTarget = {}
    /\ tjAdded = {}
    /\ tjResult = [status |-> "idle", fetched |-> 0, inserted |-> 0, skipped |-> 0,
                   errors |-> <<>>]
    /\ tjBatch = <<>>
    /\ tjRetry = <<>>
    /\ tjRaised = {}
    /\ tjSrcOpen = FALSE
    /\ tjTgtHeld = FALSE
    /\ tjCommitted = FALSE
    /\ tjTruncates = 0
    /\ tjBatches = <<>>
    /\ tjPc = "idle"

\* lines 389-396. The target table has a unique key, the rows of the source
\* have distinct keys, and some of them may be in the target already
TjInit ==
    /\ tjRows \in 0..MaxRows
    /\ tjBatchSize \in 1..MaxBatchSize
    /\ tjCreate \in BOOLEAN
    /\ tjTruncate \in BOOLEAN
    /\ tjTarget \in SUBSET (1..tjRows)
    /\ tjAdded = {}
    /\ tjResult = [status |-> "success", fetched |-> 0, inserted |-> 0,
                   skipped |-> 0, errors |-> <<>>]
    /\ tjBatch = <<>>
    /\ tjRetry = [next |-> 0, inserted |-> 0]
    /\ tjRaised = {}
    /\ tjSrcOpen = FALSE
    /\ tjTgtHeld = FALSE
    /\ tjCommitted = FALSE
    /\ tjTruncates = 0
    /\ tjBatches = <<>>
    /\ tjPc = IF tjCreate THEN "schema" ELSE "count"

\* lines 493-494
final_status_success(errors) == "success"
final_status(errors) == IF errors # <<>> THEN "warning" ELSE "success"

\* an error list without the limit of lines 514 and 523
record_error_unbounded(errors, e) == Append(errors, e)

\* lines 514-515 and 523-524: at most five error strings are kept
record_error(errors, e) == IF Len(errors) < MaxErrors THEN Append(errors, e) ELSE errors

\* cursor.rowcount of INSERT IGNORE of one row: a row whose key is in the
\* target is ignored
rowcount(row, target) == IF row \in target THEN 0 ELSE 1

\* a step of the job that neither ends it nor touches the result
TjStep(from, to) ==
    /\ tjPc = from
    /\ tjPc' = to
    /\ UNCHANGED <<tjRows, tjBatchSize, tjCreate, tjTruncate, tjTarget, tjAdded,
                   tjResult, tjBatch, tjRetry, tjRaised, tjCommitted,
                   tjTruncates, tjBatches>>
    /\ UNCHANGED NotTj

\* an operation raises: the handlers of lines 403-406, 410-413, 418-421 and
\* 496-498 set status error and replace the error list; `finally` closes the
\* source connection and the `async with` blocks release the target connection
TjRaises(from, op, message) ==
    /\ tjPc = from
    /\ tjRaised' = tjRaised \cup {op}
    /\ tjResult' = [tjResult EXCEPT !.status = "error", !.errors = <<message>>]
    /\ tjSrcOpen' = FALSE
    /\ tjTgtHeld' = FALSE
    /\ tjPc' = "done"
    /\ UNCHANGED <<tjRows, tjBatchSize, tjCreate, tjTruncate, tjTarget, tjAdded,
                   tjBatch, tjRetry, tjCommitted,
                   tjTruncates, tjBatches>>

\* lines 400-406: get_table_schema
TjSchema == TjStep("schema", "create") /\ UNCHANGED <<tjSrcOpen, tjTgtHeld>>
TjSchemaFails == TjRaises("schema", "schema", "schema") /\ UNCHANGED NotTj

\* lines 408-413: create_table_if_not_exists ("already exists" is tolerated)
TjCreateTable == TjStep("create", "count") /\ UNCHANGED <<tjSrcOpen, tjTgtHeld>>
TjCreateTableFails == TjRaises("create", "create", "create") /\ UNCHANGED NotTj

\* lines 416-424: get_row_count; a table without rows is done
TjCountFails == TjRaises("count", "count", "count") /\ UNCHANGED NotTj
TjCount ==
    /\ TjStep("count", IF tjRows = 0 THEN "done" ELSE "connect")
    /\ UNCHANGED <<tjSrcOpen, tjTgtHeld>>

\* lines 438-445: the unpooled source connection
TjConnect == TjStep("connect", "execute") /\ tjSrcOpen' = TRUE /\ UNCHANGED tjTgtHeld
TjConnectFails == TjRaises("connect", "connect", "unknown") /\ UNCHANGED NotTj

\* lines 449-450: the streaming cursor executes the query
TjExecute == TjStep("execute", "acquire") /\ UNCHANGED <<tjSrcOpen, tjTgtHeld>>
TjExecuteFails == TjRaises("execute", "execute", "unknown") /\ UNCHANGED NotTj

\* the acquisition of the target connection followed by no TRUNCATE, as
\* without lines 456-457
TjAcquireNoTruncate ==
    /\ TjStep("acquire", "stream")
    /\ tjTgtHeld' = TRUE
    /\ UNCHANGED tjSrcOpen

\* lines 453-455: the pooled target connection and its cursor
TjAcquire ==
    /\ TjStep("acquire", IF tjTruncate THEN "truncate" ELSE "stream")
    /\ tjTgtHeld' = TRUE
    /\ UNCHANGED tjSrcOpen
TjAcquireFails == TjRaises("acquire", "acquire", "unknown") /\ UNCHANGED NotTj

\* lines 456-457: TRUNCATE TABLE empties the target table
TjTruncateTable ==
    /\ tjPc = "truncate"
    /\ tjTarget' = {}
    /\ tjTruncates' = tjTruncates + 1
    /\ tjPc' = "stream"
    /\ UNCHANGED <<tjRows, tjBatchSize, tjCreate, tjTruncate, tjAdded, tjResult,
                   tjBatch, tjRetry, tjRaised, tjSrcOpen, tjTgtHeld, tjCommitted,
                   tjBatches>>
    /\ UNCHANGED NotTj
TjTruncateFails == TjRaises("truncate", "truncate", "unknown") /\ UNCHANGED NotTj

\* lines 463-473: the cursor yields the next row; a full batch is inserted
TjFetch ==
    /\ tjPc = "stream"
    /\ tjResult.fetched < tjRows
    /\ tjBatch' = Append(tjBatch, tjResult.fetched + 1)
    /\ tjResult' = [tjResult EXCEPT !.fetched = @ + 1]
    /\ tjPc' = IF Len(tjBatch') >= tjBatchSize THEN "batch" ELSE "stream"
    /\ UNCHANGED <<tjRows, tjBatchSize, tjCreate, tjTruncate, tjTarget, tjAdded,
                   tjRetry, tjRaised, tjSrcOpen, tjTgtHeld, tjCommitted,
                   tjTruncates, tjBatches>>
    /\ UNCHANGED NotTj

\* line 463: the cursor raises while streaming
TjFetchFails == TjRaises("stream", "fetch", "unknown") /\ UNCHANGED NotTj

\* the end of the stream without lines 480-484: the rows of the last, partial
\* batch are not inserted
TjEndOfRowsDropsRest ==
    /\ tjResult.fetched = tjRows
    /\ TjStep("stream", "commit")
    /\ UNCHANGED <<tjSrcOpen, tjTgtHeld>>

\* lines 480-486: the cursor is exhausted; the rest of the rows is inserted,
\* then the commit
TjEndOfRows ==
    /\ tjResult.fetched = tjRows
    /\ TjStep("stream", IF tjBatch # <<>> THEN "batch" ELSE "commit")
    /\ UNCHANGED <<tjSrcOpen, tjTgtHeld>>

\* an executemany that reports every row of the batch as inserted, as an INSERT
\* without IGNORE would on a target without duplicates
TjExecuteManyCountsAll ==
    /\ tjPc = "batch"
    /\ tjBatches' = Append(tjBatches, tjBatch)
    /\ LET new == Range(tjBatch) \ tjTarget
       IN /\ tjTarget' = tjTarget \cup new
          /\ tjAdded' = tjAdded \cup new
          /\ tjResult' = [tjResult EXCEPT !.inserted = @ + Len(tjBatch)]
    /\ tjBatch' = <<>>
    /\ tjPc' = "stream"
    /\ UNCHANGED <<tjRows, tjBatchSize, tjCreate, tjTruncate, tjRetry, tjRaised,
                   tjSrcOpen, tjTgtHeld, tjCommitted, tjTruncates>>
    /\ UNCHANGED NotTj

\* lines 474-478 and 482-484 with 510-512: executemany succeeds; rowcount is the
\* number of rows of the batch that were not in the target
TjExecuteMany ==
    /\ tjPc = "batch"
    /\ tjBatches' = Append(tjBatches, tjBatch)
    /\ LET new == Range(tjBatch) \ tjTarget
           inserted == Cardinality(new)
       IN /\ tjTarget' = tjTarget \cup new
          /\ tjAdded' = tjAdded \cup new
          /\ tjResult' = [tjResult EXCEPT !.inserted = @ + inserted,
                                         !.skipped = @ + Len(tjBatch) - inserted]
    /\ tjBatch' = <<>>
    /\ tjPc' = "stream"
    /\ UNCHANGED <<tjRows, tjBatchSize, tjCreate, tjTruncate, tjRetry, tjRaised,
                   tjSrcOpen, tjTgtHeld, tjCommitted, tjTruncates>>
    /\ UNCHANGED NotTj

\* lines 511-517: executemany raises. The driver sends a batch as one or more
\* multi-row INSERT statements, so the statements before the failing one have
\* been applied: the first k rows of the batch, 0 <= k < len(batch)
TjExecuteManyFails(k) ==
    /\ tjPc = "batch"
    /\ tjBatches' = Append(tjBatches, tjBatch)
    /\ k < Len(tjBatch)
    /\ LET new == {tjBatch[i] : i \in 1..k} \ tjTarget
       IN /\ tjTarget' = tjTarget \cup new
          /\ tjAdded' = tjAdded \cup new
    /\ tjRaised' = tjRaised \cup {"executemany"}
    /\ tjResult' = [tjResult EXCEPT !.errors = record_error(@, "batch")]
    /\ tjRetry' = [next |-> 1, inserted |-> 0]
    /\ tjPc' = "rows"
    /\ UNCHANGED <<tjRows, tjBatchSize, tjCreate, tjTruncate, tjBatch, tjSrcOpen,
                   tjTgtHeld, tjCommitted, tjTruncates>>
    /\ UNCHANGED NotTj

\* lines 518-521: the retry inserts the next row of the batch
TjRetryRow ==
    /\ tjPc = "rows"
    /\ tjRetry.next <= Len(tjBatch)
    /\ LET row == tjBatch[tjRetry.next]
       IN /\ tjRetry' = [next |-> tjRetry.next + 1,
                         inserted |-> tjRetry.inserted + rowcount(row, tjTarget)]
          /\ tjTarget' = tjTarget \cup {row}
          /\ tjAdded' = tjAdded \cup ({row} \ tjTarget)
    /\ UNCHANGED <<tjRows, tjBatchSize, tjCreate, tjTruncate, tjResult, tjBatch,
                   tjRaised, tjSrcOpen, tjTgtHeld, tjCommitted, tjTruncates,
                   tjBatches, tjPc>>
    /\ UNCHANGED NotTj

\* lines 522-524: the INSERT of the next row raises
TjRetryRowFails ==
    /\ tjPc = "rows"
    /\ tjRetry.next <= Len(tjBatch)
    /\ tjRetry' = [tjRetry EXCEPT !.next = @ + 1]
    /\ tjRaised' = tjRaised \cup {"execute_row"}
    /\ tjResult' = [tjResult EXCEPT !.errors = record_error(@, "row")]
    /\ UNCHANGED <<tjRows, tjBatchSize, tjCreate, tjTruncate, tjTarget, tjAdded,
                   tjBatch, tjSrcOpen, tjTgtHeld, tjCommitted, tjTruncates,
                   tjBatches, tjPc>>
    /\ UNCHANGED NotTj

\* line 525 with 474-478 and 482-484: _insert_batch returns the retry's count
TjRetryReturns ==
    /\ tjPc = "rows"
    /\ tjRetry.next > Len(tjBatch)
    /\ tjResult' = [tjResult EXCEPT !.inserted = @ + tjRetry.inserted,
                                   !.skipped = @ + Len(tjBatch) - tjRetry.inserted]
    /\ tjBatch' = <<>>
    /\ tjPc' = "stream"
    /\ UNCHANGED <<tjRows, tjBatchSize, tjCreate, tjTruncate, tjTarget, tjAdded,
                   tjRetry, tjRaised, tjSrcOpen, tjTgtHeld, tjCommitted,
                   tjTruncates, tjBatches>>
    /\ UNCHANGED NotTj

\* lines 486-494: the commit; the connections are released; the status is set
TjCommit ==
    /\ tjPc = "commit"
    /\ tjCommitted' = TRUE
    /\ tjResult' = [tjResult EXCEPT !.status = final_status(tjResult.errors)]
    /\ tjSrcOpen' = FALSE
    /\ tjTgtHeld' = FALSE
    /\ tjPc' = "done"
    /\ UNCHANGED <<tjRows, tjBatchSize, tjCreate, tjTruncate, tjTarget, tjAdded,
                   tjBatch, tjRetry, tjRaised, tjTruncates, tjBatches>>
    /\ UNCHANGED NotTj

\* line 486: the commit raises
TjCommitFails == TjRaises("commit", "commit", "unknown") /\ UNCHANGED NotTj

TjNext ==
    \/ TjSchema
    \/ TjSchemaFails
    \/ TjCreateTable
    \/ TjCreateTableFails
    \/ TjCount
    \/ TjCountFails
    \/ TjConnect
    \/ TjConnectFails
    \/ TjExecute
    \/ TjExecuteFails
    \/ TjAcquire
    \/ TjAcquireFails
    \/ TjTruncateTable
    \/ TjTruncateFails
    \/ TjFetch
    \/ TjFetchFails
    \/ TjEndOfRows
    \/ TjExecuteMany
    \/ \E k \in 0..MaxBatchSize : TjExecuteManyFails(k)
    \/ TjRetryRow
    \/ TjRetryRowFails
    \/ TjRetryReturns
    \/ TjCommit
    \/ TjCommitFails

\* ----------------------------------------------------- warehouse table job
WhIdle ==
    /\ whJob = <<>>
    /\ whCall = <<>>
    /\ whPc = "idle"
    /\ whCache = FALSE
    /\ whEffects = {}
    /\ whData = 0
    /\ whBatches = <<>>
    /\ whInserted = 0
    /\ whCopy = <<>>
    /\ whResult = <<>>

Catalogs == {"hive", "iceberg"}
Methods == {"s3_copy", "insert_select"}

\* a job handed to migrate_table or migrate_schema, with the settings of the
\* migrator (neither function passes use_cache or delete_cache_on_success),
\* or a call of migrate_table_insert_select itself
WhJobs ==
    [entry : {"migrate"}, catalog : Catalogs,
     target_catalog : Catalogs \cup {"none"}, method : Methods,
     dry_run : BOOLEAN, use_cache : {TRUE}, delete_cache_on_success : {FALSE},
     batch_size : {MaxWhBatchSize}, parallel_inserts : 1..MaxParallelInserts]
    \cup
    [entry : {"migrate_table_insert_select"}, catalog : {"hive"},
     target_catalog : {"hive"}, method : {"insert_select"},
     dry_run : BOOLEAN, use_cache : BOOLEAN, delete_cache_on_success : BOOLEAN,
     batch_size : {MaxWhBatchSize}, parallel_inserts : 1..MaxParallelInserts]

NoResult == [method |-> "none", status |-> "none", rows_inserted |-> 0,
             files_copied |-> 0, error |-> FALSE]

WhInit ==
    /\ whJob \in WhJobs
    /\ whCall = [method |-> IF whJob.entry = "migrate_table_insert_select"
                            THEN "insert_select" ELSE "none",
                 location |-> FALSE, partitioned |-> FALSE]
    /\ whPc = IF whJob.entry = "migrate_table_insert_select"
              THEN "extract" ELSE "dispatch"
    /\ whCache \in BOOLEAN
    /\ whEffects = {}
    /\ whData = -1
    /\ whBatches = <<>>
    /\ whInserted = 0
    /\ whCopy = [files |-> 0, failed |-> 0]
    /\ whResult = NoResult

\* "iceberg" in name.lower()
is_iceberg(name) == name = "iceberg"

\* lines 600 and 661: config.target_catalog or config.catalog
target_catalog_of(j) ==
    IF j.target_catalog = "none" THEN j.catalog ELSE j.target_catalog

\* lines 620-625 and 664-669
actual_method_configured(j) == j.method
actual_method(j) ==
    IF (is_iceberg(j.catalog) \/ is_iceberg(target_catalog_of(j)))
       /\ j.method = "s3_copy"
    THEN "insert_select" ELSE j.method

\* a strategy returns its MigrationResult
WhReturn(method, status, rows, files, error) ==
    /\ whResult' = [method |-> method, status |-> status, rows_inserted |-> rows,
                    files_copied |-> files, error |-> error]
    /\ whPc' = "done"

\* migrate_table lines 599-646 (table_job), migrate_schema lines 661-723 for
\* one table of the schema: extract_table_metadata returns None for a view (a
\* skipped result in migrate_table, no result in migrate_schema); otherwise
\* the strategy is chosen. location and partitioned are read by the s3_copy
\* job only
WhMigrate(table_job, view, location, partitioned) ==
    /\ whPc = "dispatch"
    /\ IF view
       THEN /\ ~location /\ ~partitioned
            /\ IF table_job
               THEN WhReturn(whJob.method, "skipped", 0, 0, TRUE)
               ELSE whPc' = "done" /\ UNCHANGED whResult
            /\ UNCHANGED whCall
       ELSE /\ actual_method(whJob) = "insert_select" => ~location /\ ~partitioned
            /\ whCall' = [method |-> actual_method(whJob), location |-> location,
                          partitioned |-> partitioned]
            /\ whPc' = IF actual_method(whJob) = "s3_copy" THEN "s3_delete"
                       ELSE "extract"
            /\ UNCHANGED whResult
    /\ UNCHANGED <<whJob, whCache, whEffects, whData, whBatches, whInserted, whCopy>>
    /\ UNCHANGED NotWh

\* an exception outside the try blocks leaves migrate_table / migrate_schema:
\* extract_table_metadata (603, 697), delete_prefix (186), the listing of
\* copy_prefix and filter_partitions (196-223)
WhRaises ==
    /\ whPc \in {"dispatch", "s3_delete", "s3_copy"}
    /\ whPc = "s3_delete" => whCall.location /\ ~whJob.dry_run
    /\ whPc' = "raised"
    /\ UNCHANGED <<whJob, whCall, whCache, whEffects, whData, whBatches,
                   whInserted, whCopy, whResult>>
    /\ UNCHANGED NotWh

\* migrate_table_s3_copy lines 154-188: a table without a location is
\* rejected; the target prefix is emptied unless dry_run
WhS3Delete ==
    /\ whPc = "s3_delete"
    /\ IF ~whCall.location
       THEN WhReturn("s3_copy", "error", 0, 0, TRUE) /\ UNCHANGED whEffects
       ELSE /\ whEffects' = IF whJob.dry_run THEN whEffects
                            ELSE whEffects \cup {"delete_objects"}
            /\ whPc' = "s3_copy"
            /\ UNCHANGED whResult
    /\ UNCHANGED <<whJob, whCall, whCache, whData, whBatches, whInserted, whCopy>>
    /\ UNCHANGED NotWh

\* lines 190-227: copy_partitions or copy_prefix over `files` objects, `failed`
\* of which could not be copied (the CopyResult has status error then); with
\* dry_run the objects are only counted
WhS3Copy(files, failed) ==
    /\ whPc = "s3_copy"
    /\ failed <= files
    /\ whJob.dry_run => failed = 0
    /\ whEffects' = IF ~whJob.dry_run /\ files > failed
                    THEN whEffects \cup {"put_object"} ELSE whEffects
    /\ whCopy' = [files |-> files - failed, failed |-> failed]
    /\ whPc' = "s3_table"
    /\ UNCHANGED <<whJob, whCall, whCache, whData, whBatches, whInserted, whResult>>
    /\ UNCHANGED NotWh

\* the statements that prepare the target table (lines 233-272 and 400-430):
\* CREATE (SCHEMA) when the schema is missing, DROP TABLE when the table
\* exists, CREATE (TABLE), and CALL sync_partition_metadata (s3_copy of a
\* partitioned table)
target_statements(schema_exists, table_exists, sync) ==
    (IF schema_exists THEN <<>> ELSE <<"CREATE">>)
    \o (IF table_exists THEN <<"DROP">> ELSE <<>>)
    \o <<"CREATE">>
    \o (IF sync THEN <<"CALL">> ELSE <<>>)

\* lines 229-303: with dry_run no statement is executed; otherwise the
\* statements run in order and statement fail_at raises (0: none does). Only
\* the failure of CALL sync_partition_metadata is swallowed (lines 274-275)
WhS3CreateTable(schema_exists, table_exists, fail_at) ==
    /\ whPc = "s3_table"
    /\ LET stmts == target_statements(schema_exists, table_exists,
                                      whCall.partitioned)
           done == IF fail_at = 0 THEN Len(stmts) ELSE fail_at - 1
           raised == fail_at # 0 /\ stmts[fail_at] # "CALL"
       IN /\ fail_at <= Len(stmts)
          /\ whJob.dry_run => fail_at = 0
          /\ whEffects' = IF whJob.dry_run THEN whEffects
                          ELSE whEffects \cup {stmts[i] : i \in 1..done}
          /\ IF raised
             THEN WhReturn("s3_copy", "error", 0, whCopy.files, TRUE)
             ELSE WhReturn("s3_copy",
                           IF whJob.dry_run THEN "dry_run" ELSE "success", 0,
                           whCopy.files, FALSE)
    /\ UNCHANGED <<whJob, whCall, whCache, whData, whBatches, whInserted, whCopy>>
    /\ UNCHANGED NotWh

\* the error texts of a failed INSERT, each as the set of the substrings it
\* contains among those execute_batch looks for ("commitfailed" contains
\* "commit")
ErrorTexts == {{"commitfailed", "commit"}, {"metadata location"},
               {"commit", "conflict"}, {"commit"}, {}}

\* the test with `or` in the place of its `and`
is_commit_conflict_any(error_str) ==
    \/ "commitfailed" \in error_str
    \/ "metadata location" \in error_str
    \/ "commit" \in error_str
    \/ "conflict" \in error_str
\* the test with its `and` applied to the whole disjunction
is_commit_conflict_and_first(error_str) ==
    /\ "commitfailed" \in error_str \/ "metadata location" \in error_str
          \/ "commit" \in error_str
    /\ "conflict" \in error_str
\* lines 506-512 (`and` binds tighter than `or`)
is_commit_conflict(error_str) ==
    \/ "commitfailed" \in error_str
    \/ "metadata location" \in error_str
    \/ "commit" \in error_str /\ "conflict" \in error_str

\* line 516
wait_ms(attempt) ==
    IF min_wait_ms * (2 ^ attempt) < max_wait_ms
    THEN min_wait_ms * (2 ^ attempt) ELSE max_wait_ms

\* lines 517-518: jitter = random.uniform(0.5, 1.5), here in tenths; the sleep
\* in tenths of a millisecond
JitterTenths == 5..15
wait_tenths(ms, jitter) == ms * jitter

\* line 528: the sizes of the batches of `rows` rows
batch_sizes(rows, batch_size) ==
    [i \in 1..((rows + batch_size - 1) \div batch_size) |->
        IF i * batch_size <= rows THEN batch_size
        ELSE rows - (i - 1) * batch_size]

\* migrate_table_insert_select lines 344-391: the rows come from the cache
\* (an entry exists and use_cache) or from the source; after an extraction
\* dry_run returns, otherwise the rows are saved to the cache. Any exception
\* gives an error result
WhExtract(rows, raises) ==
    /\ whPc = "extract"
    /\ IF raises
       THEN /\ rows = 0
            /\ WhReturn("insert_select", "error", 0, 0, TRUE)
            /\ UNCHANGED <<whData, whCache>>
       ELSE /\ whData' = rows
            /\ IF ~(whCache /\ whJob.use_cache) /\ whJob.dry_run
               THEN /\ WhReturn("insert_select", "dry_run", rows, 0, FALSE)
                    /\ UNCHANGED whCache
               ELSE /\ whCache' = TRUE
                    /\ whPc' = "create"
                    /\ UNCHANGED whResult
    /\ UNCHANGED <<whJob, whCall, whEffects, whBatches, whInserted, whCopy>>
    /\ UNCHANGED NotWh

\* lines 396-431 and 528-549: the target table is prepared (statement
\* fail_at raises, 0: none does) and the batches are submitted to the pool
WhCreateTarget(schema_exists, table_exists, fail_at) ==
    /\ whPc = "create"
    /\ LET stmts == target_statements(schema_exists, table_exists, FALSE)
           done == IF fail_at = 0 THEN Len(stmts) ELSE fail_at - 1
       IN /\ fail_at <= Len(stmts)
          /\ whEffects' = whEffects \cup {stmts[i] : i \in 1..done}
          /\ IF fail_at # 0
             THEN WhReturn("insert_select", "error", 0, 0, TRUE)
                  /\ UNCHANGED whBatches
             ELSE /\ whBatches' =
                        [i \in DOMAIN batch_sizes(whData, whJob.batch_size) |->
                            [st |-> "queued", attempt |-> 0, wait |-> 0,
                             err |-> {}, lines |-> 0, collected |-> FALSE,
                             size |-> batch_sizes(whData, whJob.batch_size)[i]]]
                  /\ whPc' = "insert"
                  /\ UNCHANGED whResult
    /\ UNCHANGED <<whJob, whCall, whCache, whData, whInserted, whCopy>>
    /\ UNCHANGED NotWh

\* line 545: ThreadPoolExecutor(max_workers=parallel_inserts)
pool_always_free(batches, workers) == TRUE
pool_free(batches, workers) ==
    Cardinality({b \in DOMAIN batches : batches[b].st = "running"}) < workers

\* lines 545-549: a worker of the pool starts execute_batch for a batch
WhBatchStart(b) ==
    /\ whPc = "insert"
    /\ whBatches[b].st = "queued"
    /\ pool_free(whBatches, whJob.parallel_inserts)
    /\ whBatches' = [whBatches EXCEPT ![b].st = "running"]
    /\ UNCHANGED <<whJob, whCall, whPc, whCache, whEffects, whData, whInserted,
                   whCopy, whResult>>
    /\ UNCHANGED NotWh

\* lines 486-498: an attempt inserts the batch; execute_batch returns
\* len(batch_data)
WhBatchInserted(b) ==
    /\ whPc = "insert"
    /\ whBatches[b].st = "running"
    /\ whBatches' = [whBatches EXCEPT ![b].st = "ok", ![b].wait = 0,
                                      ![b].err = {}]
    /\ whEffects' = whEffects \cup {"INSERT"}
    /\ UNCHANGED <<whJob, whCall, whPc, whCache, whData, whInserted, whCopy,
                   whResult>>
    /\ UNCHANGED NotWh

\* lines 499-524: an attempt raises with text e. A commit conflict before
\* the last attempt sleeps wait_ms times the jitter and retries (wait holds
\* wait_ms, err the text); otherwise one line, which names the attempt, is
\* appended to errors and execute_batch returns 0
WhBatchFails(b, e) ==
    /\ whPc = "insert"
    /\ whBatches[b].st = "running"
    /\ LET attempt == whBatches[b].attempt
       IN IF is_commit_conflict(e) /\ attempt < max_retries - 1
          THEN whBatches' = [whBatches EXCEPT
                                ![b].attempt = attempt + 1,
                                ![b].wait = wait_ms(attempt),
                                ![b].err = e]
          ELSE whBatches' = [whBatches EXCEPT
                                ![b].st = "failed", ![b].wait = 0,
                                ![b].err = e, ![b].lines = @ + 1]
    /\ whEffects' = whEffects \cup {"INSERT"}
    /\ UNCHANGED <<whJob, whCall, whPc, whCache, whData, whInserted, whCopy,
                   whResult>>
    /\ UNCHANGED NotWh

\* lines 550-554: as_completed yields a finished future; its count is added
WhCollect(b) ==
    /\ whPc = "insert"
    /\ whBatches[b].st \in {"ok", "failed"}
    /\ ~whBatches[b].collected
    /\ whBatches' = [whBatches EXCEPT ![b].collected = TRUE]
    /\ whInserted' = whInserted
                        + (IF whBatches[b].st = "ok" THEN whBatches[b].size ELSE 0)
    /\ UNCHANGED <<whJob, whCall, whPc, whCache, whEffects, whData, whCopy,
                   whResult>>
    /\ UNCHANGED NotWh

\* lines 556-578: every future is collected (or there is no row); the cache
\* entry is deleted when delete_cache_on_success; the result is success
delete_cache_if_no_error(flag, batches) ==
    flag /\ \A b \in DOMAIN batches : batches[b].st = "ok"
delete_cache(flag, batches) == flag

WhFinish ==
    /\ whPc = "insert"
    /\ \A b \in DOMAIN whBatches : whBatches[b].collected
    /\ whCache' = IF delete_cache(whJob.delete_cache_on_success, whBatches)
                  THEN FALSE ELSE whCache
    /\ WhReturn("insert_select", "success", whInserted, 0, FALSE)
    /\ UNCHANGED <<whJob, whCall, whEffects, whData, whBatches, whInserted, whCopy>>
    /\ UNCHANGED NotWh

\* the steps of migrate_table_insert_select
WhLoadNext ==
    \/ \E rows \in 0..MaxWhRows, raises \in BOOLEAN : WhExtract(rows, raises)
    \/ \E schema_exists, table_exists \in BOOLEAN, fail_at \in 0..3 :
          WhCreateTarget(schema_exists, table_exists, fail_at)
    \/ \E b \in DOMAIN whBatches : WhBatchStart(b)
    \/ \E b \in DOMAIN whBatches : WhBatchInserted(b)
    \/ \E b \in DOMAIN whBatches, e \in ErrorTexts : WhBatchFails(b, e)
    \/ \E b \in DOMAIN whBatches : WhCollect(b)
    \/ WhFinish

WhNext ==
    \/ \E table_job, view, location, partitioned \in BOOLEAN :
          WhMigrate(table_job, view, location, partitioned)
    \/ WhRaises
    \/ WhS3Delete
    \/ \E files \in 0..MaxWhFiles, failed \in 0..MaxWhFiles : WhS3Copy(files, failed)
    \/ \E schema_exists, table_exists \in BOOLEAN, fail_at \in 0..4 :
          WhS3CreateTable(schema_exists, table_exists, fail_at)
    \/ WhLoadNext

\* ------------------------------------------------------------------ copier
CpIdle ==
    /\ cpSource = <<>>
    /\ cpTarget = <<>>
    /\ cpCalls = <<>>
    /\ cpTasks = {}
    /\ cpResults = <<>>
    /\ cpVerify = <<>>
    /\ cpPc = "idle"

\* an S3 key or prefix is the sequence of its characters. The table lives at
\* prefix t (TableMetadata.s3_prefix has no trailing slash); the source
\* bucket may hold the file t/a, the key t//a, the file tx/a of a sibling
\* table, and the files t/d=1/a and t/d=10/a of two partitions of column d
SourcePrefix == <<"t">>
SourceKeys ==
    {<<"t", "/", "a">>,
     <<"t", "/", "/", "a">>,
     <<"t", "x", "/", "a">>,
     <<"t", "/", "d", "=", "1", "/", "a">>,
     <<"t", "/", "d", "=", "1", "0", "/", "a">>}
TargetPrefixes == {<<"t">>, <<"u">>}
PartitionColumn == <<"d">>
PartitionLists ==
    {<<<<"1">>>>, <<<<"1", "0">>>>, <<<<"1">>, <<"1", "0">>>>,
     <<<<"1", "0">>, <<"1">>>>}

EmptyBucket == [k \in {} |-> 0]

CpInit ==
    /\ cpSource \in UNION {[K -> 1..MaxObjectSize] :
                              K \in {S \in SUBSET SourceKeys :
                                        Cardinality(S) <= MaxObjects}}
    /\ cpTarget = EmptyBucket
    /\ cpCalls = <<>>
    /\ cpTasks = {}
    /\ cpResults = <<>>
    /\ cpVerify = <<>>
    /\ cpPc = "start"

\* str.lstrip("/")
RECURSIVE lstrip(_)
lstrip(key) ==
    IF key # <<>> /\ Head(key) = "/" THEN lstrip(Tail(key)) ELSE key

\* list_objects_v2 with Prefix=prefix returns the keys of the bucket that
\* start with the prefix
list_objects(bucket, prefix) ==
    {k \in DOMAIN bucket :
        Len(k) >= Len(prefix) /\ SubSeq(k, 1, Len(prefix)) = prefix}

\* lines 174 and 407: key[len(prefix):].lstrip("/")
relative_key(key, prefix) == lstrip(SubSeq(key, Len(prefix) + 1, Len(key)))

\* line 175: f"{target_prefix}/{relative_key}".lstrip("/")
target_key(target_prefix, rel_key) == lstrip(target_prefix \o <<"/">> \o rel_key)

\* copy_partitions lines 254-259: f"{base_prefix}/{col}={val}".lstrip("/")
partition_prefix(base_prefix, value) ==
    lstrip(base_prefix \o <<"/">> \o PartitionColumn \o <<"=">> \o value)

\* copy_prefix lines 139-185 for each call: the objects are listed, and
\* unless dry_run one copy_object per listed object is submitted to the pool
submit(calls) ==
    {[call |-> pr[1], source_key |-> pr[2],
      target_key |-> target_key(calls[pr[1]].target_prefix,
                                relative_key(pr[2], calls[pr[1]].source_prefix)),
      st |-> "pending"] :
        pr \in {qr \in (DOMAIN calls) \X (DOMAIN cpSource) :
                   /\ ~calls[qr[1]].dry_run
                   /\ qr[2] \in list_objects(cpSource,
                                             calls[qr[1]].source_prefix)}}

\* copy_prefix is called for the table
CpCopyPrefix(target_prefix, dry_run) ==
    /\ cpPc = "start"
    /\ cpCalls' = <<[by |-> "copy_prefix", source_prefix |-> SourcePrefix,
                     target_prefix |-> target_prefix, dry_run |-> dry_run]>>
    /\ cpTasks' = submit(cpCalls')
    /\ cpPc' = "copying"
    /\ UNCHANGED <<cpSource, cpTarget, cpResults, cpVerify>>
    /\ UNCHANGED NotCp

\* copy_partitions is called with the selected partitions: one copy_prefix
\* per partition, in the order of the list
CpCopyPartitions(target_base_prefix, partitions, dry_run) ==
    /\ cpPc = "start"
    /\ cpCalls' = [i \in DOMAIN partitions |->
                     [by |-> "copy_partitions",
                      source_prefix |->
                          partition_prefix(SourcePrefix, partitions[i]),
                      target_prefix |->
                          partition_prefix(target_base_prefix, partitions[i]),
                      dry_run |-> dry_run]]
    /\ cpTasks' = submit(cpCalls')
    /\ cpPc' = "copying"
    /\ UNCHANGED <<cpSource, cpTarget, cpResults, cpVerify>>
    /\ UNCHANGED NotCp

\* copy_object lines 104-126 in a worker of the pool: get_object then
\* put_object under the target key; an exception gives (False, error)
CpCopyObject(task, ok) ==
    /\ cpPc = "copying"
    /\ task \in cpTasks
    /\ task.st = "pending"
    /\ cpTasks' = (cpTasks \ {task})
                     \cup {[task EXCEPT !.st = IF ok THEN "ok" ELSE "failed"]}
    /\ cpTarget' = IF ok
                   THEN [k \in DOMAIN cpTarget \cup {task.target_key} |->
                            IF k = task.target_key THEN cpSource[task.source_key]
                            ELSE cpTarget[k]]
                   ELSE cpTarget
    /\ UNCHANGED <<cpSource, cpCalls, cpResults, cpVerify, cpPc>>
    /\ UNCHANGED NotCp

\* the CopyResult of call i (lines 141-211)
copy_result(i) ==
    LET objects == list_objects(cpSource, cpCalls[i].source_prefix)
        mine(st) == {t \in cpTasks : t.call = i /\ t.st = st}
    IN [source_path |-> cpCalls[i].source_prefix,
        files_copied |-> IF cpCalls[i].dry_run THEN Cardinality(objects)
                         ELSE Cardinality(mine("ok")),
        status |-> IF objects = {} THEN "skipped"
                   ELSE IF cpCalls[i].dry_run THEN "dry_run"
                   ELSE IF mine("failed") # {} THEN "error"
                   ELSE "success"]

\* every future has its result: copy_prefix returns its CopyResult,
\* copy_partitions the list of the results in the order of the partitions
CpReturn ==
    /\ cpPc = "copying"
    /\ \A t \in cpTasks : t.st # "pending"
    /\ cpResults' = [i \in DOMAIN cpCalls |-> copy_result(i)]
    /\ cpPc' = "returned"
    /\ UNCHANGED <<cpSource, cpTarget, cpCalls, cpTasks, cpVerify>>
    /\ UNCHANGED NotCp

\* the order of the keys in a listing: by the code points of the characters
CharCode ==
    [c \in {"/", "0", "1", "=", "a", "d", "t", "u", "x"} |->
        CASE c = "/" -> 47 [] c = "0" -> 48 [] c = "1" -> 49 [] c = "=" -> 61
          [] c = "a" -> 97 [] c = "d" -> 100 [] c = "t" -> 116
          [] c = "u" -> 117 [] c = "x" -> 120]

RECURSIVE key_before(_, _)
key_before(a, b) ==
    IF a = <<>> THEN b # <<>>
    ELSE IF b = <<>> THEN FALSE
    ELSE IF Head(a) = Head(b) THEN key_before(Tail(a), Tail(b))
    ELSE CharCode[Head(a)] < CharCode[Head(b)]

\* lines 404-414: the dict of the listed objects by relative key; a later
\* object of the listing replaces an earlier one with the same relative key
relative(bucket, prefix) ==
    [r \in {relative_key(k, prefix) : k \in list_objects(bucket, prefix)} |->
        bucket[CHOOSE k \in list_objects(bucket, prefix) :
                  /\ relative_key(k, prefix) = r
                  /\ \A o \in list_objects(bucket, prefix) \ {k} :
                        relative_key(o, prefix) = r => key_before(o, k)]]

\* verify_copy lines 398-453
verify_copy(source_prefix, target_prefix) ==
    LET source_objects == list_objects(cpSource, source_prefix)
        target_objects == list_objects(cpTarget, target_prefix)
        source_relative == relative(cpSource, source_prefix)
        target_relative == relative(cpTarget, target_prefix)
        source_keys == DOMAIN source_relative
        target_keys == DOMAIN target_relative
        missing_in_target == source_keys \ target_keys
        extra_in_target == target_keys \ source_keys
        size_mismatch == {key \in source_keys \cap target_keys :
                             source_relative[key] # target_relative[key]}
    IN [source_files |-> Cardinality(source_objects),
        target_files |-> Cardinality(target_objects),
        missing_in_target |-> missing_in_target,
        extra_in_target |-> extra_in_target,
        size_mismatch |-> size_mismatch,
        status |-> IF source_objects = {} /\ target_objects = {} THEN "empty"
                   ELSE IF /\ missing_in_target = {}
                           /\ extra_in_target = {}
                           /\ size_mismatch = {}
                   THEN "ok" ELSE "mismatch"]

\* verify_copy is called with the prefixes of the copy_prefix that returned
CpVerifyCopy ==
    /\ cpPc = "returned"
    /\ cpCalls[1].by = "copy_prefix"
    /\ cpVerify' = verify_copy(cpCalls[1].source_prefix, cpCalls[1].target_prefix)
    /\ cpPc' = "verified"
    /\ UNCHANGED <<cpSource, cpTarget, cpCalls, cpTasks, cpResults>>
    /\ UNCHANGED NotCp

CpNext ==
    \/ \E target_prefix \in TargetPrefixes, dry_run \in BOOLEAN :
          CpCopyPrefix(target_prefix, dry_run)
    \/ \E target_base_prefix \in TargetPrefixes, partitions \in PartitionLists,
          dry_run \in BOOLEAN :
          CpCopyPartitions(target_base_prefix, partitions, dry_run)
    \/ \E task \in cpTasks, ok \in BOOLEAN : CpCopyObject(task, ok)
    \/ CpReturn
    \/ CpVerifyCopy

\* ------------------------------------------------------------------- cache
CaIdle ==
    /\ caData = <<>>
    /\ caMeta = <<>>
    /\ caSaver = <<>>

\* the files data.parquet and metadata.json of one cache entry: absent ({})
\* or one content, written by save number `by` (0: a save that returned
\* before the savers start), complete once its writer has written it all
Saves == 1..MaxSavers
FileOf(by, complete) == {[by |-> by, complete |-> complete]}

\* the entry is absent, or left by an earlier save, or an orphaned data file
CaInit ==
    /\ \E files \in {<<{}, {}>>,
                      <<FileOf(0, TRUE), FileOf(0, TRUE)>>,
                      <<FileOf(0, TRUE), {}>>} :
          caData = files[1] /\ caMeta = files[2]
    /\ caSaver = [s \in Saves |-> "idle"]

\* exists lines 56-61: both files exist
exists == caData # {} /\ caMeta # {}

\* save line 101 / 105: pq.write_table opens data.parquet, which creates or
\* truncates the file
CaOpenData(s) ==
    /\ caSaver[s] = "idle"
    /\ caData' = FileOf(s, FALSE)
    /\ caSaver' = [caSaver EXCEPT ![s] = "data"]
    /\ UNCHANGED caMeta
    /\ UNCHANGED NotCa

\* the table is written and the file closed; it is whole unless another
\* saver opened the file meanwhile
CaWriteData(s) ==
    /\ caSaver[s] = "data"
    /\ caData' = FileOf(s, caData = FileOf(s, FALSE))
    /\ caSaver' = [caSaver EXCEPT ![s] = "data_written"]
    /\ UNCHANGED caMeta
    /\ UNCHANGED NotCa

\* save line 117: open(metadata_file, "w") creates or truncates the file
CaOpenMeta(s) ==
    /\ caSaver[s] = "data_written"
    /\ caMeta' = FileOf(s, FALSE)
    /\ caSaver' = [caSaver EXCEPT ![s] = "meta"]
    /\ UNCHANGED caData
    /\ UNCHANGED NotCa

\* save lines 118-120: json.dump, the file is closed and save returns
CaWriteMeta(s) ==
    /\ caSaver[s] = "meta"
    /\ caMeta' = FileOf(s, caMeta = FileOf(s, FALSE))
    /\ caSaver' = [caSaver EXCEPT ![s] = "returned"]
    /\ UNCHANGED caData
    /\ UNCHANGED NotCa

\* the process of a saver dies in the middle of save
CaCrash(s) ==
    /\ caSaver[s] \in {"data", "data_written", "meta"}
    /\ caSaver' = [caSaver EXCEPT ![s] = "crashed"]
    /\ UNCHANGED <<caData, caMeta>>
    /\ UNCHANGED NotCa

CaNext ==
    \/ \E s \in Saves : CaOpenData(s)
    \/ \E s \in Saves : CaWriteData(s)
    \/ \E s \in Saves : CaOpenMeta(s)
    \/ \E s \in Saves : CaWriteMeta(s)
    \/ \E s \in Saves : CaCrash(s)

\* ----------------------------------------------------------- WHERE helpers
\* Texts are sequences of characters; None is a value no text equals.
None == <<"None">>
Whitespace == {" "}
WhereChars == {" ", "1", "=", "a"}
Texts(chars, n) == UNION {[1..k -> chars] : k \in 0..n}
Wheres == {None} \cup Texts(WhereChars, MaxWhereLen)
UserIds == {7, 12}
UserIdLists == Texts(UserIds, MaxUserIds)

FnNoCall == [fn |-> "none", where |-> None, user_ids |-> <<>>]

FnIdle ==
    /\ fnCall = FnNoCall
    /\ fnResult = <<>>
    /\ fnPc = "idle"

\* a call of normalize_where(where) or of build_user_id_where(user_ids, where)
FnInit ==
    /\ fnCall \in [fn : {"normalize_where"}, where : Wheres, user_ids : {<<>>}]
                  \cup [fn : {"build_user_id_where"}, where : Wheres,
                        user_ids : UserIdLists]
    /\ fnResult = <<>>
    /\ fnPc = "call"

\* str.strip(): the text without its leading and trailing whitespace
RECURSIVE strip_left(_)
strip_left(text) ==
    IF text # <<>> /\ Head(text) \in Whitespace THEN strip_left(Tail(text))
    ELSE text

RECURSIVE strip_right(_)
strip_right(text) ==
    IF text # <<>> /\ text[Len(text)] \in Whitespace
    THEN strip_right(SubSeq(text, 1, Len(text) - 1))
    ELSE text

strip(text) == strip_right(strip_left(text))

\* str(n) of a natural number
Digit == <<"0", "1", "2", "3", "4", "5", "6", "7", "8", "9">>
RECURSIVE str(_)
str(n) ==
    IF n < 10 THEN <<Digit[n + 1]>>
    ELSE str(n \div 10) \o <<Digit[(n % 10) + 1]>>

\* sep.join(parts)
RECURSIVE join(_, _)
join(sep, parts) ==
    IF parts = <<>> THEN <<>>
    ELSE IF Len(parts) = 1 THEN parts[1]
    ELSE parts[1] \o sep \o join(sep, Tail(parts))

\* the literals of the two functions
OneEqualsOne == <<"1", "=", "1">>
UserIdIn == <<"u", "s", "e", "r", "_", "i", "d", " ", "I", "N", " ", "(">>
CommaSpace == <<",", " ">>
And == <<" ", "A", "N", "D", " ">>

\* normalize_where without the strip of the returned text
normalize_where_unstripped(where) ==
    IF where = None \/ where = <<>> \/ strip(where) = <<>> THEN OneEqualsOne
    ELSE where

\* migrator.py lines 41-45
normalize_where(where) ==
    IF where = None \/ where = <<>> \/ strip(where) = <<>> THEN OneEqualsOne
    ELSE strip(where)

\* line 62: f"user_id IN ({', '.join(map(str, user_ids))})"
user_id_condition(user_ids) ==
    UserIdIn \o join(CommaSpace, [k \in DOMAIN user_ids |-> str(user_ids[k])])
             \o <<")">>

\* build_user_id_where that joins the two conditions without parentheses
build_user_id_where_bare(user_ids, existing_where) ==
    IF user_ids = <<>> THEN normalize_where(existing_where)
    ELSE LET existing == normalize_where(existing_where)
         IN  IF existing = OneEqualsOne THEN user_id_condition(user_ids)
             ELSE existing \o And \o user_id_condition(user_ids)

\* migrator.py lines 48-68
build_user_id_where(user_ids, existing_where) ==
    IF user_ids = <<>> THEN normalize_where(existing_where)
    ELSE LET existing == normalize_where(existing_where)
         IN  IF existing = OneEqualsOne THEN user_id_condition(user_ids)
             ELSE <<"(">> \o existing \o <<")">> \o And
                      \o user_id_condition(user_ids)

FnReturn(result) ==
    /\ fnPc = "call"
    /\ fnResult' = result
    /\ fnPc' = "done"
    /\ UNCHANGED fnCall
    /\ UNCHANGED NotFn

FnNormalizeWhere ==
    /\ fnCall.fn = "normalize_where"
    /\ FnReturn(normalize_where(fnCall.where))

FnBuildUserIdWhere ==
    /\ fnCall.fn = "build_user_id_where"
    /\ FnReturn(build_user_id_where(fnCall.user_ids, fnCall.where))

FnNext ==
    \/ FnNormalizeWhere
    \/ FnBuildUserIdWhere

\* -------------------------------------------------------- relational plan
\* The plan has one entry, under databases or under dynamic_databases. Names
\* and patterns are texts (sequences of characters); a key the YAML document
\* does not set is "unset"; the booleans of the document are "true", "false".
PatternChars == {"{", "u", "}"}
WordChars == {"u", "o", "l", "t", "_"} \cup {Digit[k] : k \in DOMAIN Digit}
Patterns == Texts(PatternChars, MaxPatternLen)
TargetPatterns ==
    {None, <<>>, <<"t">>, <<"t", "{", "u", "}">>, <<"{", "u", "u", "}">>}

\* the rows the lookup query returns: dicts of two columns, in column order
LookupRows == Texts({<<7, 12>>, <<12, 7>>}, MaxLookupRows)

\* the tables SHOW TABLES lists in the source database
Orders == <<"o">>
OrdersOfDay == <<"o", "_", "2", "0", "2", "4", "0", "1", "0", "1">>
OrdersOfYear == <<"o", "_", "2", "0", "2", "4">>
Logs == <<"l">>
SourceTables == <<Logs, Orders, OrdersOfYear, OrdersOfDay>>

Modes == {"all", "tables", "other"}
YamlFlags == {"unset", "true", "false"}

\* an entry of the YAML document: `name` is the name of a databases entry and
\* the pattern of a dynamic_databases entry
StaticEntries ==
    [kind : {"static"}, name : {<<"o">>}, target_pattern : {None},
     rows : {<<>>}, mode : Modes, exclude : {<<>>, <<Logs>>},
     tables : {<<>>, <<OrdersOfDay>>}, where : {<<>>}, limit : {None},
     exclude_date_tables : YamlFlags]

DynamicEntries ==
    [kind : {"dynamic"}, name : Patterns, target_pattern : TargetPatterns,
     rows : LookupRows, mode : {"all"}, exclude : {<<Logs>>},
     tables : {<<>>}, where : {<<"a">>}, limit : {<<"5">>},
     exclude_date_tables : {"unset"}]
    \cup
    [kind : {"dynamic"}, name : {<<"u", "{", "u", "}">>, <<"u">>},
     target_pattern : {None}, rows : LookupRows, mode : Modes,
     exclude : {<<>>}, tables : {<<OrdersOfDay>>}, where : {<<>>},
     limit : {None}, exclude_date_tables : {"false"}]

Plans ==
    [malformed : BOOLEAN, exclude_date_tables : YamlFlags, entry : StaticEntries]
    \cup [malformed : {FALSE}, exclude_date_tables : {"unset"},
          entry : DynamicEntries]

PlNoEntry ==
    [kind |-> "none", name |-> <<>>, target_pattern |-> None, rows |-> <<>>,
     mode |-> "all", exclude |-> <<>>, tables |-> <<>>, where |-> <<>>,
     limit |-> None, exclude_date_tables |-> "unset"]
PlNoPlan ==
    [malformed |-> FALSE, exclude_date_tables |-> "unset", entry |-> PlNoEntry]
PlNoConfig ==
    [exclude_date_tables |-> TRUE,
     entry |-> [PlNoEntry EXCEPT !.exclude_date_tables = TRUE]]

PlIdle ==
    /\ plPlan = PlNoPlan
    /\ plConfig = PlNoConfig
    /\ plConfigs = <<>>
    /\ plIdx = 0
    /\ plSelected = <<>>
    /\ plIo = {}
    /\ plReport = "none"
    /\ plPc = "idle"

PlInit ==
    /\ plPlan \in Plans
    /\ plConfig = PlNoConfig
    /\ plConfigs = <<>>
    /\ plIdx = 0
    /\ plSelected = <<>>
    /\ plIo = {}
    /\ plReport = "none"
    /\ plPc = "load"

\* a key of the document with a boolean default (data.get(key, default), the
\* default of a pydantic field)
flag(value, default) ==
    IF value = "unset" THEN default ELSE value = "true"

\* config.py line 107 and line 143: exclude_date_tables: bool = True
\* config.py line 208: data.get("exclude_date_tables", True)
entry_exclude_date_tables_default == TRUE
plan_exclude_date_tables_default == TRUE

\* DatabaseConfig(...) of a databases entry and of an expanded job
DatabaseConfig(name, target_name, mode, exclude, tables_, where, limit, exclude_date_tables) ==
    [name |-> name, target_name |-> target_name, mode |-> mode,
     exclude |-> exclude, tables |-> tables_, where |-> where, limit |-> limit,
     exclude_date_tables |-> exclude_date_tables]

\* load_yaml_config raises: the document is malformed (yaml.safe_load or the
\* validation of a pydantic model fails); run ends with the exception
PlLoadRaises ==
    /\ plPc = "load"
    /\ plPlan.malformed
    /\ plReport' = "load"
    /\ plPc' = "raised"
    /\ UNCHANGED <<plPlan, plConfig, plConfigs, plIdx, plSelected, plIo>>
    /\ UNCHANGED NotPl

\* run lines 318-340: load_yaml_config returns; all_db_configs starts as the
\* databases of the plan
PlLoad ==
    /\ plPc = "load"
    /\ ~plPlan.malformed
    /\ LET entry == [plPlan.entry EXCEPT
                        !.exclude_date_tables =
                            flag(@, entry_exclude_date_tables_default)]
       IN  /\ plConfig' =
                [exclude_date_tables |->
                    flag(plPlan.exclude_date_tables,
                         plan_exclude_date_tables_default),
                 entry |-> entry]
           /\ plConfigs' =
                IF entry.kind = "static"
                THEN <<DatabaseConfig(entry.name, None, entry.mode,
                                      entry.exclude, entry.tables, entry.where,
                                      entry.limit, entry.exclude_date_tables)>>
                ELSE <<>>
           /\ plPc' = IF entry.kind = "static" THEN "jobs" ELSE "expand"
    /\ plIdx' = 1
    /\ UNCHANGED <<plPlan, plSelected, plIo, plReport>>
    /\ UNCHANGED NotPl

\* execute_lookup_query that takes the last column of each row
execute_lookup_query_last_column(rows) ==
    [k \in DOMAIN rows |-> rows[k][Len(rows[k])]]

\* migrator.py lines 144-163: the first column of each row
execute_lookup_query(rows) == [k \in DOMAIN rows |-> rows[k][1]]

\* re.search(r"\{(\w+)\}", pattern): the word between the braces of the
\* leftmost match, or None
word_at(pattern, i) ==
    LET ends == {j \in (i + 2)..Len(pattern) :
                    /\ pattern[j] = "}"
                    /\ \A k \in (i + 1)..(j - 1) : pattern[k] \in WordChars}
    IN  IF pattern[i] = "{" /\ ends # {}
        THEN SubSeq(pattern, i + 1, (CHOOSE j \in ends : TRUE) - 1)
        ELSE None

search_placeholder(pattern) ==
    LET starts == {i \in DOMAIN pattern : word_at(pattern, i) # None}
    IN  IF starts = {} THEN None
        ELSE word_at(pattern, CHOOSE i \in starts : \A k \in starts : i <= k)

\* text.replace(old, new) for a non-empty old: every occurrence, from the left
RECURSIVE replace(_, _, _)
replace(text, old, new) ==
    IF Len(text) < Len(old) THEN text
    ELSE IF SubSeq(text, 1, Len(old)) = old
    THEN new \o replace(SubSeq(text, Len(old) + 1, Len(text)), old, new)
    ELSE <<Head(text)>> \o replace(Tail(text), old, new)

\* cli.py lines 280-297: the DatabaseConfig of one id
expanded_config(dynamic_config, placeholder, id_value) ==
    LET braces == <<"{">> \o placeholder \o <<"}">>
    IN  DatabaseConfig(
            replace(dynamic_config.name, braces, str(id_value)),
            IF dynamic_config.target_pattern \in {None, <<>>} THEN None
            ELSE replace(dynamic_config.target_pattern, braces, str(id_value)),
            dynamic_config.mode, dynamic_config.exclude, dynamic_config.tables,
            dynamic_config.where, dynamic_config.limit,
            dynamic_config.exclude_date_tables)

\* expand_dynamic_databases returns `configs`; run extends all_db_configs
\* (lines 343-349). The lookup query has been executed in every case.
PlExpandReturns(configs, report) ==
    /\ plPc = "expand"
    /\ plIo' = plIo \cup {"connect", "lookup query"}
    /\ plConfigs' = plConfigs \o configs
    /\ plReport' = report
    /\ plPc' = "jobs"
    /\ UNCHANGED <<plPlan, plConfig, plIdx, plSelected>>
    /\ UNCHANGED NotPl

\* lines 263-267: the lookup returns no row
PlExpandEmpty ==
    /\ execute_lookup_query(plConfig.entry.rows) = <<>>
    /\ PlExpandReturns(<<>>, "none")

\* lines 272-275: the pattern has no {placeholder}
PlExpandNoPlaceholder ==
    /\ execute_lookup_query(plConfig.entry.rows) # <<>>
    /\ search_placeholder(plConfig.entry.name) = None
    /\ PlExpandReturns(<<>>, "expand")

\* lines 277-299: one DatabaseConfig per id
PlExpand ==
    LET ids == execute_lookup_query(plConfig.entry.rows)
        placeholder == search_placeholder(plConfig.entry.name)
    IN  /\ ids # <<>>
        /\ placeholder # None
        /\ PlExpandReturns(
               [k \in DOMAIN ids |->
                    expanded_config(plConfig.entry, placeholder, ids[k])],
               "none")

\* DATE_SUFFIX_PATTERN (migrator.py lines 31-33):
\* _(\d{8}|\d{6}|\d{4}[-_]\d{2}[-_]\d{2}|\d{2}[-_]\d{2}[-_]\d{2})(_\w+)?$
Digits == {Digit[k] : k \in DOMAIN Digit}
all_digits(text) == \A k \in DOMAIN text : text[k] \in Digits
separated_date(text, year) ==
    /\ Len(text) = year + 6
    /\ all_digits(SubSeq(text, 1, year))
    /\ text[year + 1] \in {"-", "_"}
    /\ all_digits(SubSeq(text, year + 2, year + 3))
    /\ text[year + 4] \in {"-", "_"}
    /\ all_digits(SubSeq(text, year + 5, year + 6))
date_text(text) ==
    \/ Len(text) \in {8, 6} /\ all_digits(text)
    \/ separated_date(text, 4)
    \/ separated_date(text, 2)

\* lines 36-38: DATE_SUFFIX_PATTERN.search(table_name)
is_date_suffixed_table(table_name) ==
    \E i \in DOMAIN table_name, j \in DOMAIN table_name :
        /\ table_name[i] = "_"
        /\ date_text(SubSeq(table_name, i + 1, j))
        /\ \/ j = Len(table_name)
           \/ /\ j + 2 <= Len(table_name)
              /\ table_name[j + 1] = "_"
              /\ \A k \in (j + 2)..Len(table_name) : table_name[k] \in WordChars

\* run lines 366 and 404: db_config.exclude_date_tables if it is not None,
\* else yaml_config.exclude_date_tables; the field of a DatabaseConfig is a
\* bool and never None
exclude_date(db_config) == db_config.exclude_date_tables

\* migrate_single_database lines 97-137: the names in tables_config
tables_config(db_config, exclude_date_tables) ==
    IF db_config.mode = "tables" /\ db_config.tables # <<>>
    THEN db_config.tables
    ELSE LET keep(t) ==
                 /\ ~(exclude_date_tables /\ is_date_suffixed_table(t))
                 /\ \A k \in DOMAIN db_config.exclude : db_config.exclude[k] # t
         IN  SelectSeq(SourceTables, keep)

\* run calls migrate_single_database for the next job: the migrator connects
\* to the target (check_database_exists), lists the tables of the source in
\* ALL mode and builds tables_config
PlJob ==
    /\ plPc = "jobs"
    /\ plIdx <= Len(plConfigs)
    /\ LET db_config == plConfigs[plIdx]
       IN  /\ plSelected' =
                Append(plSelected, tables_config(db_config, exclude_date(db_config)))
           /\ plIo' = plIo \cup {"connect"} \cup
                IF db_config.mode = "tables" /\ db_config.tables # <<>>
                THEN {} ELSE {"show tables"}
    /\ plIdx' = plIdx + 1
    /\ UNCHANGED <<plPlan, plConfig, plConfigs, plReport, plPc>>
    /\ UNCHANGED NotPl

\* every job of all_db_configs has been called
PlFinish ==
    /\ plPc = "jobs"
    /\ plIdx > Len(plConfigs)
    /\ plPc' = "finished"
    /\ UNCHANGED <<plPlan, plConfig, plConfigs, plIdx, plSelected, plIo, plReport>>
    /\ UNCHANGED NotPl

PlNext ==
    \/ PlLoadRaises
    \/ PlLoad
    \/ PlExpandEmpty
    \/ PlExpandNoPlaceholder
    \/ PlExpand
    \/ PlJob
    \/ PlFinish

\* ----------------------------------------------------------- warehouse run
\* The plan has wrPlan.tables entries under tables and one entry under schemas
\* whose schema holds wrPlan.schema_tables tables. The table jobs are numbered
\* in the order run calls them: 1..tables, then the tables of the schema.
WrPlans ==
    [tables : 0..MaxPlanTables, schema_tables : 0..MaxSchemaTables,
     stop_on_error : BOOLEAN,
     parallel_partitions : {1, default_max_parallel},
     parallel_inserts : {1, default_parallel_inserts},
     batch_size : {1, default_batch_size}]

WrNoJob == [method |-> "none", batches |-> <<>>, tasks |-> 0, submitted |-> 0,
            in_flight |-> 0, max_workers |-> 0]

WrIdle ==
    /\ wrPlan = [tables |-> 0, schema_tables |-> 0, stop_on_error |-> FALSE,
                 parallel_partitions |-> 1, parallel_inserts |-> 1,
                 batch_size |-> 1]
    /\ wrMigrator = [batch_size |-> 0, parallel_inserts |-> 0]
    /\ wrPc = "idle"
    /\ wrStarted = 0
    /\ wrJob = WrNoJob
    /\ wrFailed = {}
    /\ wrSummary = <<>>
    /\ wrResults = <<>>
    /\ wrExit = -1

WrInit ==
    /\ wrPlan \in WrPlans
    /\ wrMigrator = [batch_size |-> 0, parallel_inserts |-> 0]
    /\ wrPc = "load"
    /\ wrStarted = 0
    /\ wrJob = WrNoJob
    /\ wrFailed = {}
    /\ wrSummary = <<>>
    /\ wrResults = <<>>
    /\ wrExit = -1

\* cli.py lines 270-284: load_yaml_config, TrinoMigrator.from_settings(): the
\* migrator is built from the settings alone (migrator.py lines 131-137) and
\* keeps the defaults of __init__
WrLoad ==
    /\ wrPc = "load"
    /\ wrMigrator' = [batch_size |-> default_batch_size,
                      parallel_inserts |-> default_parallel_inserts]
    /\ wrPc' = "tables"
    /\ UNCHANGED <<wrPlan, wrStarted, wrJob, wrFailed, wrSummary, wrResults,
                   wrExit>>
    /\ UNCHANGED NotWr

\* the next table job: of run's loop over tables, of migrate_schema's loop
WrNextJob ==
    \/ wrPc = "tables" /\ wrStarted < wrPlan.tables
    \/ wrPc = "schema" /\ wrStarted < wrPlan.tables + wrPlan.schema_tables

\* migrate_table (lines 627-646) and migrate_schema (lines 705-721) hand the
\* table to a strategy: insert_select with self.batch_size and
\* self.parallel_inserts (the pool of line 544), s3_copy with the default
\* max_parallel of copy_partitions for the partitions of the table
strategy_call(method, rows, partitions) ==
    IF method = "insert_select"
    THEN [method |-> method,
          batches |-> batch_sizes(rows, wrMigrator.batch_size),
          tasks |-> Len(batch_sizes(rows, wrMigrator.batch_size)),
          submitted |-> 0, in_flight |-> 0,
          max_workers |-> wrMigrator.parallel_inserts]
    ELSE [method |-> method, batches |-> <<>>, tasks |-> partitions,
          submitted |-> 0, in_flight |-> 0,
          max_workers |-> default_max_parallel]

\* extract_table_metadata returns the metadata of a table and the strategy is
\* called
WrMigrateTable(method, rows, partitions) ==
    /\ WrNextJob
    /\ wrStarted' = wrStarted + 1
    /\ wrJob' = strategy_call(method, rows, partitions)
    /\ wrPc' = IF wrPc = "tables" THEN "table" ELSE "schema_table"
    /\ UNCHANGED <<wrPlan, wrMigrator, wrFailed, wrSummary, wrResults, wrExit>>
    /\ UNCHANGED NotWr

\* extract_table_metadata returns None (a view): migrate_table returns a
\* skipped result (lines 608-616), migrate_schema goes on (lines 699-702)
WrSkipView ==
    /\ WrNextJob
    /\ wrStarted' = wrStarted + 1
    /\ wrResults' =
          IF wrPc = "tables"
          THEN Append(wrResults, [job |-> wrStarted + 1, status |-> "skipped"])
          ELSE wrResults
    /\ UNCHANGED <<wrPlan, wrMigrator, wrPc, wrJob, wrFailed, wrSummary, wrExit>>
    /\ UNCHANGED NotWr

\* extract_table_metadata raises (lines 603 and 697): nothing catches the
\* exception in migrate_table, migrate_schema or run; run closes the migrator
\* (finally) and the process ends with the exception
WrMetadataRaises ==
    /\ WrNextJob
    /\ wrStarted' = wrStarted + 1
    /\ wrFailed' = wrFailed \cup {wrStarted + 1}
    /\ wrPc' = "raised"
    /\ wrExit' = 1
    /\ UNCHANGED <<wrPlan, wrMigrator, wrJob, wrSummary, wrResults>>
    /\ UNCHANGED NotWr

\* the executor of the strategy starts the next batch INSERT or partition copy
\* when a worker is free
WrSubmit ==
    /\ wrPc \in {"table", "schema_table"}
    /\ wrJob.submitted < wrJob.tasks
    /\ wrJob.in_flight < wrJob.max_workers
    /\ wrJob' = [wrJob EXCEPT !.submitted = @ + 1, !.in_flight = @ + 1]
    /\ UNCHANGED <<wrPlan, wrMigrator, wrPc, wrStarted, wrFailed, wrSummary,
                   wrResults, wrExit>>
    /\ UNCHANGED NotWr

\* a batch INSERT or a partition copy ends
WrComplete ==
    /\ wrPc \in {"table", "schema_table"}
    /\ wrJob.in_flight > 0
    /\ wrJob' = [wrJob EXCEPT !.in_flight = @ - 1]
    /\ UNCHANGED <<wrPlan, wrMigrator, wrPc, wrStarted, wrFailed, wrSummary,
                   wrResults, wrExit>>
    /\ UNCHANGED NotWr

\* the strategy returns its MigrationResult: run appends it to summary.results
\* (line 300) and goes to the next entry, whatever the status; migrate_schema
\* appends it to its own summary (line 723)
WrTableReturns(status) ==
    /\ wrPc \in {"table", "schema_table"}
    /\ wrJob.submitted = wrJob.tasks
    /\ wrJob.in_flight = 0
    /\ LET result == [job |-> wrStarted, status |-> status]
       IN  IF wrPc = "table"
           THEN /\ wrResults' = Append(wrResults, result)
                /\ wrPc' = "tables"
                /\ UNCHANGED wrSummary
           ELSE /\ wrSummary' = Append(wrSummary, result)
                /\ wrPc' = "schema"
                /\ UNCHANGED wrResults
    /\ wrJob' = WrNoJob
    /\ UNCHANGED <<wrPlan, wrMigrator, wrStarted, wrFailed, wrExit>>
    /\ UNCHANGED NotWr

\* cli.py lines 303-318: the loop over tables is over; migrate_schema is
\* called for the schema of the plan
WrMigrateSchema ==
    /\ wrPc = "tables"
    /\ wrStarted = wrPlan.tables
    /\ wrSummary' = <<>>
    /\ wrPc' = "schema"
    /\ UNCHANGED <<wrPlan, wrMigrator, wrStarted, wrJob, wrFailed, wrResults,
                   wrExit>>
    /\ UNCHANGED NotWr

\* migrate_schema returns (line 726); run extends summary.results (line 319),
\* prints the summary and returns (lines 321-324): the process exits with 0
WrFinish ==
    /\ wrPc = "schema"
    /\ wrStarted = wrPlan.tables + wrPlan.schema_tables
    /\ wrResults' = wrResults \o wrSummary
    /\ wrPc' = "finished"
    /\ wrExit' = 0
    /\ UNCHANGED <<wrPlan, wrMigrator, wrStarted, wrJob, wrFailed, wrSummary>>
    /\ UNCHANGED NotWr

WrNext ==
    \/ WrLoad
    \/ WrSkipView
    \/ WrMetadataRaises
    \/ WrSubmit
    \/ WrComplete
    \/ WrMigrateSchema
    \/ WrFinish
    \/ \E method \in Methods, rows \in 0..MaxPlanRows,
          partitions \in 0..MaxPartitions :
          WrMigrateTable(method, rows, partitions)
    \/ \E status \in {"success", "error"} : WrTableReturns(status)

\* ---------------------------------------------------------- object copy job
OcIdle ==
    /\ ocJob = <<>>
    /\ ocBuckets = <<>>
    /\ ocTasks = {}
    /\ ocFiles = 0
    /\ ocLog = <<>>
    /\ ocResult = <<>>
    /\ ocPc = "idle"

\* a call of migrate_table_s3_copy for the table at s3://lake/t: the target
\* catalog, whether the table is partitioned (by column d), dry_run, and the
\* settings: target_bucket and whether the two endpoint URLs are the same
OcJobs ==
    [target_catalog : Catalogs, partitioned : BOOLEAN, dry_run : BOOLEAN,
     target_bucket : {"lake", "warehouse"}, same_endpoint : BOOLEAN]

\* a bucket is known by the endpoint of its client and its name
source_store == <<"source_s3", "lake">>
target_store(j) ==
    <<IF j.same_endpoint THEN "source_s3" ELSE "target_s3", j.target_bucket>>

\* the source bucket may hold the file t/a of the table, the file t/d=1/a of
\* its partition d=1 and the file tx/a of a sibling table; the target bucket
\* may hold t/a and t/z from an earlier run and tx/a of the sibling table.
\* The content of a source object is 1, of an object of the target bucket 2
OcSourceKeys ==
    {<<"t", "/", "a">>, <<"t", "/", "d", "=", "1", "/", "a">>,
     <<"t", "x", "/", "a">>}
OcTargetKeys ==
    {<<"t", "/", "a">>, <<"t", "/", "z">>, <<"t", "x", "/", "a">>}
OcObjects(keys, content) ==
    {[k \in K |-> content] : K \in {S \in SUBSET keys : Cardinality(S) <= MaxObjects}}
OcPartitionLists == {<<>>, <<(<<"1">>)>>}

OcNoResult == [status |-> "none", files_copied |-> 0, error |-> FALSE]

OcInit ==
    /\ ocJob \in OcJobs
    /\ \E src \in OcObjects(OcSourceKeys, 1), old \in OcObjects(OcTargetKeys, 2) :
          ocBuckets = [s \in {source_store, target_store(ocJob)} |->
                          IF s = source_store THEN src ELSE old]
    /\ ocTasks = {}
    /\ ocFiles = 0
    /\ ocLog = <<>>
    /\ ocResult = OcNoResult
    /\ ocPc = "delete"

\* delete_prefix lines 349-373: every listed object is deleted
delete_prefix(bucket, prefix) ==
    [k \in DOMAIN bucket \ list_objects(bucket, prefix) |-> bucket[k]]

\* lines 178-188: target_prefix = source_prefix; the target prefix is emptied
\* unless dry_run
OcDeletePrefix ==
    /\ ocPc = "delete"
    /\ IF ocJob.dry_run
       THEN UNCHANGED <<ocBuckets, ocLog>>
       ELSE /\ ocBuckets' = [ocBuckets EXCEPT ![target_store(ocJob)] =
                                delete_prefix(@, SourcePrefix)]
            /\ ocLog' = Append(ocLog, "delete_prefix")
    /\ ocPc' = "copy"
    /\ UNCHANGED <<ocJob, ocTasks, ocFiles, ocResult>>
    /\ UNCHANGED NotOc

\* line 186: delete_prefix raises (in its listing); the exception leaves
\* migrate_table_s3_copy
OcDeletePrefixRaises ==
    /\ ocPc = "delete"
    /\ ~ocJob.dry_run
    /\ ocPc' = "raised"
    /\ UNCHANGED <<ocJob, ocBuckets, ocTasks, ocFiles, ocLog, ocResult>>
    /\ UNCHANGED NotOc

\* copy_prefix lines 139-185: one copy_object per object listed under the
\* prefix in the source bucket
copy_tasks(source_prefix, target_prefix) ==
    {[source_key |-> k,
      target_key |-> target_key(target_prefix, relative_key(k, source_prefix)),
      st |-> "pending"] :
        k \in list_objects(ocBuckets[source_store], source_prefix)}

\* lines 194-227: copy_partitions over the partitions of the table (one
\* copy_prefix per partition), or copy_prefix for a table without partitions;
\* with dry_run the objects are only counted
OcCopy(partitions) ==
    /\ ocPc = "copy"
    /\ ~ocJob.partitioned => partitions = <<>>
    /\ LET tasks == IF ocJob.partitioned
                    THEN UNION {copy_tasks(partition_prefix(SourcePrefix, partitions[i]),
                                           partition_prefix(SourcePrefix, partitions[i])) :
                                   i \in DOMAIN partitions}
                    ELSE copy_tasks(SourcePrefix, SourcePrefix)
       IN /\ ocTasks' = IF ocJob.dry_run THEN {} ELSE tasks
          /\ ocFiles' = IF ocJob.dry_run THEN Cardinality(tasks) ELSE 0
    /\ ocPc' = "copying"
    /\ UNCHANGED <<ocJob, ocBuckets, ocLog, ocResult>>
    /\ UNCHANGED NotOc

\* copy_object lines 104-126 in a worker of the pool: get_object from the
\* source bucket, put_object into the target bucket; an exception gives
\* (False, error)
OcCopyObject(task, ok) ==
    /\ ocPc = "copying"
    /\ task \in ocTasks
    /\ task.st = "pending"
    /\ ok => task.source_key \in DOMAIN ocBuckets[source_store]
    /\ ocTasks' = (ocTasks \ {task})
                     \cup {[task EXCEPT !.st = IF ok THEN "ok" ELSE "failed"]}
    /\ IF ok
       THEN /\ ocBuckets' =
                  [ocBuckets EXCEPT ![target_store(ocJob)] =
                      [k \in DOMAIN @ \cup {task.target_key} |->
                          IF k = task.target_key
                          THEN ocBuckets[source_store][task.source_key]
                          ELSE @[k]]]
            /\ ocLog' = Append(ocLog, "put_object")
       ELSE UNCHANGED <<ocBuckets, ocLog>>
    /\ UNCHANGED <<ocJob, ocFiles, ocResult, ocPc>>
    /\ UNCHANGED NotOc

\* lines 206-227: every future has its result; total_files is the number of
\* objects copied
OcCopied ==
    /\ ocPc = "copying"
    /\ \A t \in ocTasks : t.st # "pending"
    /\ ocFiles' = IF ocJob.dry_run THEN ocFiles
                  ELSE Cardinality({t \in ocTasks : t.st = "ok"})
    /\ ocPc' = "table"
    /\ UNCHANGED <<ocJob, ocBuckets, ocTasks, ocLog, ocResult>>
    /\ UNCHANGED NotOc

\* the statements of lines 233-272 with CREATE TABLE ahead of DROP TABLE
oc_statements_create_first(j, schema_exists, table_exists) ==
    (IF schema_exists THEN <<>> ELSE <<"CREATE SCHEMA">>)
    \o (IF is_iceberg(j.target_catalog) THEN <<"CALL register_table">>
        ELSE <<"CREATE TABLE">>)
    \o (IF table_exists THEN <<"DROP TABLE">> ELSE <<>>)
    \o (IF ~is_iceberg(j.target_catalog) /\ j.partitioned
        THEN <<"CALL sync_partition_metadata">> ELSE <<>>)

\* lines 233-272: CREATE SCHEMA when the schema is missing, DROP TABLE when
\* the table exists, register_table on an Iceberg catalog and CREATE TABLE on
\* a Hive one, where sync_partition_metadata follows for a partitioned table
oc_statements(j, schema_exists, table_exists) ==
    (IF schema_exists THEN <<>> ELSE <<"CREATE SCHEMA">>)
    \o (IF table_exists THEN <<"DROP TABLE">> ELSE <<>>)
    \o (IF is_iceberg(j.target_catalog) THEN <<"CALL register_table">>
        ELSE <<"CREATE TABLE">>)
    \o (IF ~is_iceberg(j.target_catalog) /\ j.partitioned
        THEN <<"CALL sync_partition_metadata">> ELSE <<>>)

\* lines 229-303: with dry_run no statement is executed; otherwise the
\* statements run in order and statement fail_at raises (0: none does), which
\* the log marks after the statement. The failure of sync_partition_metadata
\* is printed as a warning (274-275), any other one returns an error result
\* (277-290)
OcCreateTable(schema_exists, table_exists, fail_at) ==
    /\ ocPc = "table"
    /\ LET stmts == oc_statements(ocJob, schema_exists, table_exists)
           executed == IF fail_at = 0 THEN Len(stmts) ELSE fail_at
           raised == fail_at # 0 /\ stmts[fail_at] # "CALL sync_partition_metadata"
       IN /\ fail_at <= Len(stmts)
          /\ ocJob.dry_run => fail_at = 0
          /\ ocLog' = IF ocJob.dry_run THEN ocLog
                      ELSE ocLog \o SubSeq(stmts, 1, executed)
                              \o (IF fail_at # 0 THEN <<"raised">> ELSE <<>>)
          /\ ocResult' = [status |-> IF raised THEN "error"
                                     ELSE IF ocJob.dry_run THEN "dry_run"
                                     ELSE "success",
                          files_copied |-> ocFiles, error |-> raised]
    /\ ocPc' = "done"
    /\ UNCHANGED <<ocJob, ocBuckets, ocTasks, ocFiles>>
    /\ UNCHANGED NotOc

OcNext ==
    \/ OcDeletePrefix
    \/ OcDeletePrefixRaises
    \/ \E partitions \in OcPartitionLists : OcCopy(partitions)
    \/ \E task \in ocTasks, ok \in BOOLEAN : OcCopyObject(task, ok)
    \/ OcCopied
    \/ \E schema_exists, table_exists \in BOOLEAN, fail_at \in 0..4 :
          OcCreateTable(schema_exists, table_exists, fail_at)

\* --------------------------------------------------------- extract-load jobs
ElIdle ==
    /\ elCache = <<>>
    /\ elJob = <<>>
    /\ elData = {}
    /\ elInserted = {}
    /\ elResult = <<>>
    /\ elJobs = 0
    /\ elPc = "idle"

\* the source tables hive.db.t and hive.db.u hold the rows 1 and 2 each, row
\* r with k = r; a call has no filter ("") or one that selects one row
ElTables == {"t", "u"}
ElSourceRows == {1, 2}
ElWheres == {"", "k = 1", "k = 2"}
ElCalls ==
    [table : ElTables, where : ElWheres, dry_run : BOOLEAN,
     use_cache : BOOLEAN, delete_cache_on_success : BOOLEAN]

\* lines 355-359: SELECT * FROM source_full [WHERE where]
select(where) ==
    CASE where = "" -> ElSourceRows
      [] where = "k = 1" -> {1}
      [] where = "k = 2" -> {2}

\* cache.py lines 39-49: the directory of catalog.schema.table (the names of
\* the model hold no "/")
get_cache_path(catalog, schema, table) == <<catalog, ".", schema, ".", table>>

ElPath == get_cache_path("hive", "db", elJob.table)

ElNoCache == [p \in {} |-> {}]
ElNoCall == [table |-> "", where |-> "", dry_run |-> FALSE, use_cache |-> FALSE, delete_cache_on_success |-> FALSE]
ElNoResult == [status |-> "none", rows_inserted |-> 0]

\* the cache directory is empty before the first call
ElInit ==
    /\ elCache = ElNoCache
    /\ elJob = ElNoCall
    /\ elData = {}
    /\ elInserted = {}
    /\ elResult = ElNoResult
    /\ elJobs = 0
    /\ elPc = "ready"

\* migrate_table_insert_select is called (lines 307-339)
ElCall(call) ==
    /\ elPc \in {"ready", "done"}
    /\ elJobs < MaxElJobs
    /\ elJob' = call
    /\ elJobs' = elJobs + 1
    /\ elData' = {}
    /\ elInserted' = {}
    /\ elResult' = ElNoResult
    /\ elPc' = "extract"
    /\ UNCHANGED elCache
    /\ UNCHANGED NotEl

\* lines 345-350: an entry exists for the source table and use_cache: its
\* rows are the data
ElLoad ==
    /\ elPc = "extract"
    /\ ElPath \in DOMAIN elCache /\ elJob.use_cache
    /\ elData' = elCache[ElPath].rows
    /\ elPc' = "insert"
    /\ UNCHANGED <<elCache, elJob, elInserted, elResult, elJobs>>
    /\ UNCHANGED NotEl

\* lines 351-380: the rows are selected from the source; dry_run returns,
\* otherwise the rows are saved under the path of the source table
ElExtract ==
    /\ elPc = "extract"
    /\ ~(ElPath \in DOMAIN elCache /\ elJob.use_cache)
    /\ elData' = select(elJob.where)
    /\ IF elJob.dry_run
       THEN /\ elResult' = [status |-> "dry_run",
                            rows_inserted |-> Cardinality(elData')]
            /\ elPc' = "done"
            /\ UNCHANGED elCache
       ELSE /\ elCache' = [p \in DOMAIN elCache \cup {ElPath} |->
                              IF p = ElPath
                              THEN [rows |-> elData', where |-> elJob.where]
                              ELSE elCache[p]]
            /\ elPc' = "insert"
            /\ UNCHANGED elResult
    /\ UNCHANGED <<elJob, elInserted, elJobs>>
    /\ UNCHANGED NotEl

\* lines 382-391: the load or the extraction raises
ElExtractRaises ==
    /\ elPc = "extract"
    /\ elResult' = [status |-> "error", rows_inserted |-> 0]
    /\ elPc' = "done"
    /\ UNCHANGED <<elCache, elJob, elData, elInserted, elJobs>>
    /\ UNCHANGED NotEl

\* lines 396-570: the target table is dropped and created and the data
\* inserted in batches; the rows of the batches that failed are missing, the
\* status is success; the entry is deleted when delete_cache_on_success
ElInsert(failed) ==
    /\ elPc = "insert"
    /\ failed \subseteq elData
    /\ elInserted' = elData \ failed
    /\ elResult' = [status |-> "success",
                    rows_inserted |-> Cardinality(elInserted')]
    /\ elCache' = IF elJob.delete_cache_on_success
                  THEN [p \in DOMAIN elCache \ {ElPath} |-> elCache[p]]
                  ELSE elCache
    /\ elPc' = "done"
    /\ UNCHANGED <<elJob, elData, elJobs>>
    /\ UNCHANGED NotEl

\* lines 580-591: the preparation of the target table raises; the entry stays
ElInsertRaises ==
    /\ elPc = "insert"
    /\ elResult' = [status |-> "error", rows_inserted |-> 0]
    /\ elPc' = "done"
    /\ UNCHANGED <<elCache, elJob, elData, elInserted, elJobs>>
    /\ UNCHANGED NotEl

ElNext ==
    \/ \E call \in ElCalls : ElCall(call)
    \/ ElLoad
    \/ ElExtract
    \/ ElExtractRaises
    \/ \E failed \in SUBSET ElSourceRows : ElInsert(failed)
    \/ ElInsertRaises

\* ------------------------------------------------------------ execute_batch
EbIdle ==
    /\ ebAttempt = 0
    /\ ebClient = "idle"
    /\ ebOpen = 0
    /\ ebError = {}
    /\ ebReturn = -1
    /\ ebPc = "idle"

\* execute_batch is called for a batch of one row
EbInit ==
    /\ ebAttempt = 0
    /\ ebClient = "none"
    /\ ebOpen = 0
    /\ ebError = {}
    /\ ebReturn = -1
    /\ ebPc = "loop"

\* lines 486-494: the attempt makes its own TrinoClient, which has no
\* connection yet (client.py 18-31)
EbNewClient ==
    /\ ebPc = "loop"
    /\ ebAttempt < max_retries
    /\ ebClient' = "created"
    /\ ebPc' = "execute"
    /\ UNCHANGED <<ebAttempt, ebOpen, ebError, ebReturn>>
    /\ UNCHANGED NotEb

\* line 495: execute connects (client.py 33-43) and runs the INSERT
EbExecute ==
    /\ ebPc = "execute"
    /\ ebClient' = "connected"
    /\ ebOpen' = ebOpen + 1
    /\ ebPc' = "close"
    /\ UNCHANGED <<ebAttempt, ebError, ebReturn>>
    /\ UNCHANGED NotEb

\* line 495: execute raises with text e, in trino.dbapi.connect (no
\* connection) or in the INSERT (the connection is open)
EbExecuteRaises(e, connected) ==
    /\ ebPc = "execute"
    /\ ebClient' = IF connected THEN "connected" ELSE "created"
    /\ ebOpen' = IF connected THEN ebOpen + 1 ELSE ebOpen
    /\ ebError' = e
    /\ ebPc' = "except"
    /\ UNCHANGED <<ebAttempt, ebReturn>>
    /\ UNCHANGED NotEb

\* client.py 242-246: close closes the connection when there is one
close(client) == IF client = "connected" THEN "closed" ELSE client
connections_closed(client) == IF client = "connected" THEN 1 ELSE 0

\* lines 496-497: the client is closed and len(batch_data) returned
EbClose ==
    /\ ebPc = "close"
    /\ ebClient' = close(ebClient)
    /\ ebOpen' = ebOpen - connections_closed(ebClient)
    /\ ebReturn' = 1
    /\ ebPc' = "returned"
    /\ UNCHANGED <<ebAttempt, ebError>>
    /\ UNCHANGED NotEb

\* the handler without lines 499-503: the client of the attempt is dropped
EbExceptKeepsClient ==
    /\ ebPc = "except"
    /\ UNCHANGED <<ebClient, ebOpen>>
    /\ IF is_commit_conflict(ebError) /\ ebAttempt < max_retries - 1
       THEN /\ ebAttempt' = ebAttempt + 1
            /\ ebPc' = "loop"
            /\ UNCHANGED ebReturn
       ELSE /\ ebReturn' = 0
            /\ ebPc' = "returned"
            /\ UNCHANGED ebAttempt
    /\ UNCHANGED ebError
    /\ UNCHANGED NotEb

\* lines 498-524: the handler closes the client; a commit conflict before the
\* last attempt sleeps and starts the next attempt, any other exception
\* returns 0
EbExcept ==
    /\ ebPc = "except"
    /\ ebClient' = close(ebClient)
    /\ ebOpen' = ebOpen - connections_closed(ebClient)
    /\ IF is_commit_conflict(ebError) /\ ebAttempt < max_retries - 1
       THEN /\ ebAttempt' = ebAttempt + 1
            /\ ebPc' = "loop"
            /\ UNCHANGED ebReturn
       ELSE /\ ebReturn' = 0
            /\ ebPc' = "returned"
            /\ UNCHANGED ebAttempt
    /\ UNCHANGED ebError
    /\ UNCHANGED NotEb

EbNext ==
    \/ EbNewClient
    \/ EbExecute
    \/ \E e \in ErrorTexts, connected \in BOOLEAN : EbExecuteRaises(e, connected)
    \/ EbClose
    \/ EbExcept

\* ---------------------------------------------------------- specifications
\* every part but the named one at rest
Idle(part) ==
    /\ IF part = "sched" THEN TRUE ELSE SchedIdle
    /\ IF part = "ma" THEN TRUE ELSE MaIdle
    /\ IF part = "run" THEN TRUE ELSE RunIdle
    /\ IF part = "tj" THEN TRUE ELSE TjIdle
    /\ IF part = "wh" THEN TRUE ELSE WhIdle
    /\ IF part = "cp" THEN TRUE ELSE CpIdle
    /\ IF part = "ca" THEN TRUE ELSE CaIdle
    /\ IF part = "fn" THEN TRUE ELSE FnIdle
    /\ IF part = "pl" THEN TRUE ELSE PlIdle
    /\ IF part = "wr" THEN TRUE ELSE WrIdle
    /\ IF part = "oc" THEN TRUE ELSE OcIdle
    /\ IF part = "el" THEN TRUE ELSE ElIdle
    /\ IF part = "eb" THEN TRUE ELSE EbIdle

InitSched == SchedInit /\ Idle("sched")
SpecSched == InitSched /\ [][SchedNext]_vars

InitMigrateAll == MaInit /\ Idle("ma")
SpecMigrateAll == InitMigrateAll /\ [][MaNext]_vars

InitRun == RunInit /\ Idle("run")
SpecRun == InitRun /\ [][RunNext]_vars

InitTableJob == TjInit /\ Idle("tj")
SpecTableJob == InitTableJob /\ [][TjNext]_vars

InitWarehouse == WhInit /\ Idle("wh")
SpecWarehouse == InitWarehouse /\ [][WhNext]_vars

\* migrate_table_insert_select called for a real run: the pool runs every
\* submitted batch, a sleeping attempt wakes up, the main thread goes on
InitWarehouseLoad ==
    /\ InitWarehouse
    /\ whJob.entry = "migrate_table_insert_select"
    /\ ~whJob.dry_run /\ whJob.use_cache /\ ~whJob.delete_cache_on_success
SpecWarehouseFair ==
    InitWarehouseLoad /\ [][WhLoadNext]_vars /\ WF_vars(WhLoadNext)

InitCopier == CpInit /\ Idle("cp")
SpecCopier == InitCopier /\ [][CpNext]_vars

InitCache == CaInit /\ Idle("ca")
SpecCache == InitCache /\ [][CaNext]_vars

InitWhere == FnInit /\ Idle("fn")
SpecWhere == InitWhere /\ [][FnNext]_vars

InitPlan == PlInit /\ Idle("pl")
SpecPlan == InitPlan /\ [][PlNext]_vars

InitWarehouseRun == WrInit /\ Idle("wr")
SpecWarehouseRun == InitWarehouseRun /\ [][WrNext]_vars

InitObjectCopy == OcInit /\ Idle("oc")
SpecObjectCopy == InitObjectCopy /\ [][OcNext]_vars

InitExtractLoad == ElInit /\ Idle("el")
SpecExtractLoad == InitExtractLoad /\ [][ElNext]_vars

\* the machines that open sessions, each from its own initial state: a
\* relational table job, the database jobs of a run, execute_batch
InitSessions ==
    \/ TjInit /\ Idle("tj")
    \/ RunInit /\ Idle("run")
    \/ EbInit /\ Idle("eb")
SessionsNext == TjNext \/ RunNext \/ EbNext
SpecSessions == InitSessions /\ [][SessionsNext]_vars


\* ------------------------------------------------------ scheduler: claims
SortDone == schedPc \in {"fetched_sorted", "given_sorted", "fetched_done", "given_done"}
LevelsDone == schedPc \in {"fetched_done", "given_done"}

\* how many times table t occurs in a list of levels
Occurrences(levels, t) ==
    Cardinality({ij \in (DOMAIN levels) \X Names :
                    ij[2] \in DOMAIN levels[ij[1]] /\ levels[ij[1]][ij[2]] = t})

LevelOf(levels, t) == CHOOSE i \in DOMAIN levels : t \in Range(levels[i])

\* the levels hold every table of the list once, and nothing else
IsPartition(levels, tbls) ==
    /\ \A i \in DOMAIN levels : levels[i] # <<>> /\ Range(levels[i]) \subseteq Range(tbls)
    /\ \A t \in Range(tbls) : Occurrences(levels, t) = 1

\* the tables of the levels before level k
Before(levels, k) == UNION {Range(levels[i]) : i \in 1..(k - 1)}

\* C1: for every table list T and every acyclic edge set E, the levels of
\* group_tables_by_dependency_level(T, E) partition T (every table in exactly one
\* level, no level empty) and every edge (c, p) with c and p in T has
\* level(p) < level(c).
C1_AcyclicLevelsOrdered ==
    LevelsDone =>
        \/ /\ IsPartition(levelResult, tables)
           /\ \A e \in EdgesOf(dependencies) :
                 (e[1] \in Range(tables) /\ e[2] \in Range(tables)) =>
                     LevelOf(levelResult, e[2]) < LevelOf(levelResult, e[1])
        \/ ~Acyclic(EdgesOf(dependencies))

\* C1 witness: an acyclic chain of three tables, with a parent outside the
\* list, has been grouped into more than one level
C1_Witness ==
    /\ schedPc = "given_done"
    /\ Acyclic(EdgesOf(dependencies))
    /\ Len(levelResult) >= 2
    /\ \E e \in EdgesOf(dependencies) : e[1] \in Range(tables) /\ e[2] \notin Range(tables)

\* C3: for every list T of distinct names and every edge set E, cyclic ones
\* included, topological_sort and group_tables_by_dependency_level return every
\* table of T exactly once; when no remaining table has all its parents placed (a
\* cycle blocks progress), the level variant puts all remaining tables, sorted by
\* name, into one final level.
C3_NoTableDroppedOnCycle ==
    /\ SortDone =>
          /\ Len(sortResult) = Len(tables)
          /\ Range(sortResult) = Range(tables)
    /\ LevelsDone =>
          /\ IsPartition(levelResult, tables)
          /\ \A k \in DOMAIN levelResult :
                LET placed == Before(levelResult, k)
                    rest == Range(tables) \ placed
                    blocked == \A t \in rest : \E p \in rest :
                                   <<t, p>> \in EdgesOf(dependencies)
                IN blocked => (levelResult[k] = sorted(rest) /\ k = Len(levelResult))

\* C3 witness: a cycle between two tables blocked the level loop after a first
\* level, and the sort fell back to appending the tables of the cycle
C3_Witness ==
    /\ LevelsDone
    /\ ~Acyclic(EdgesOf(dependencies))
    /\ Len(levelResult) = 2
    /\ Len(levelResult[2]) = 2
    /\ \E a, b \in Range(levelResult[2]) :
          a # b /\ {<<a, b>>, <<b, a>>} \subseteq EdgesOf(dependencies)

\* C4: self-referencing foreign keys are dropped from scheduling: the levels
\* computed for the migration (get_foreign_key_dependencies followed by
\* group_tables_by_dependency_level) equal the levels computed for the FK rows
\* with every self-edge t -> t removed.
C4_SelfEdgesDropped ==
    schedPc = "fetched_done" =>
        levelResult = group_tables_by_dependency_level(tables,
            get_foreign_key_dependencies(tables, {r \in fkRows : r[1] # r[2]}))

\* ---------------------------------------------------- migrate_all: claims
MaStarted(t) == maTask[t] \in {"running", "done"}

\* the FK edges among the tables of the job
MaEdges == {e \in maFkRows : e[1] \in Range(maTables) /\ e[2] \in Range(maTables)}

\* C2: in migrate_all no table migration of level k+1 starts before every table
\* migration of level k has finished; so, for an acyclic FK graph, the
\* migration of every FK parent has finished before the migration of any of its
\* FK children starts, under every interleaving of the tasks.
C2_LevelBarrier ==
    maPc \in {"loop", "gather", "done"} =>
        /\ \A t, u \in Range(maTables) :
              (MaStarted(t) /\ LevelOf(maLevels, u) < LevelOf(maLevels, t)) =>
                  maTask[u] = "done"
        /\ \/ \A e \in MaEdges : MaStarted(e[1]) => maTask[e[2]] = "done"
           \/ ~Acyclic(MaEdges)

\* C2 witness: a child table is running, after its parent finished, while
\* another table of the child's level has not started
C2_Witness ==
    /\ maPc = "gather"
    /\ Acyclic(MaEdges)
    /\ \E e \in MaEdges : maTask[e[1]] = "running" /\ maTask[e[2]] = "done"
    /\ \E t \in Range(maTables) : maTask[t] = "pending"

\* C5: within one database job (migrate_all with max_table_workers = W >= 1),
\* at most W table migrations are in progress at every moment, under every
\* interleaving of the tasks of a level.
C5_TableWorkersBound ==
    Cardinality({t \in DOMAIN maTask : maTask[t] = "running"}) <= maWorkers

\* C5 witness: W table migrations are in progress and a further task of the
\* level waits for the semaphore
C5_Witness ==
    /\ Cardinality({t \in DOMAIN maTask : maTask[t] = "running"}) = maWorkers
    /\ maSem = 0
    /\ \E t \in DOMAIN maTask : maTask[t] = "pending"

\* ------------------------------------------------------------ run: claims
JobFailed(i) == job[i].outcome = "raised" \/ job[i].createFailed

\* C6: in the relational run orchestrator at most W_db (max_workers) database
\* jobs (migrate_single_database calls) are in progress at every moment, for
\* every plan size and every interleaving.
C6_DbWorkersBound ==
    Cardinality({i \in DOMAIN job : JobInProgress(i)}) <= runWorkers

\* C6 witness: in the parallel path W_db jobs are in progress and a further
\* job of the plan waits for the semaphore
C6_Witness ==
    /\ runPc = "gather"
    /\ Cardinality({i \in DOMAIN job : JobInProgress(i)}) = runWorkers
    /\ \E i \in DOMAIN job : job[i].pc = "new"

\* C7: no exception raised inside a database job propagates out of the
\* relational run orchestrator, in the parallel path and in the sequential path
\* alike: the remaining database jobs are still executed and run finishes
\* normally.
C7_NoExceptionLeavesRun ==
    /\ runPc # "raised"
    /\ runPc = "finished" => \A i \in DOMAIN job : job[i].pc = "done"

\* C8: every database job that fails with an exception, or whose target
\* database cannot be created, contributes at least one result with status
\* error to the aggregate result list of the orchestrator.
C8_FailedJobHasErrorResult ==
    runPc = "finished" =>
        \A i \in DOMAIN job :
            JobFailed(i) =>
                \E k \in DOMAIN runAllResults :
                    runAllResults[k].db = i /\ runAllResults[k].status = "error"

\* C15: with dry_run set, a relational database job executes no statement
\* that modifies the target server (no CREATE DATABASE, no CREATE TABLE, no
\* TRUNCATE, no INSERT: the job never creates the database and never reaches
\* migrate_all) and it returns an empty result list.
C15_DryRunLeavesTargetUnchanged ==
    runDryRun =>
        \A i \in DOMAIN job :
            /\ ~job[i].created
            /\ job[i].pc # "migrate"
            /\ job[i].outcome = "returned" => job[i].results = <<>>

\* the guarded steps of migrate_single_database taken by job i in this step
JobEnters(i, pc) == job[i].pc # pc /\ job'[i].pc = pc

\* C23: in a relational database job the check of the target database, and
\* CREATE DATABASE when it is missing, complete before any table of the job is
\* created or any row written; if the creation fails no table of that job is
\* migrated, the job returns, and the remaining database jobs still run (the
\* sequential loop goes on with the next job, no exception leaves the job).
C23_DatabaseBeforeTables ==
    /\ [](\A i \in DOMAIN job :
            /\ job[i].pc \in {"new", "check", "create"} => job[i].results = <<>>
            /\ job[i].createFailed =>
                /\ job[i].results = <<>>
                /\ job[i].outcome = "returned"
                /\ runPc = "raised" =>
                       \E k \in DOMAIN job : k # i /\ job[k].outcome = "raised")
    /\ [][\A i \in DOMAIN job :
            /\ JobEnters(i, "migrate") => job[i].pc = "prepare"
            /\ JobEnters(i, "prepare") => job[i].pc \in {"check", "create"}
            /\ JobEnters(i, "create") => job[i].pc = "check"
            /\ (job'[i].createFailed /\ ~job[i].createFailed) =>
                /\ job[i].pc = "create"
                /\ runPc = "seq" => (runPc' = "seq" /\ runIdx' = i + 1)]_vars

\* C23 witness: the sequential run is over, the target database of one job
\* could not be created, and a later job of the plan migrated its tables
C23_Witness ==
    /\ runPc = "finished"
    /\ ~runParallel
    /\ \E i, k \in DOMAIN job :
          /\ i < k
          /\ job[i].createFailed
          /\ job[k].created
          /\ job[k].results # <<>>


\* the job is outside _insert_batch: no batch is being inserted or retried
TjOutsideInsertBatch == tjPc \in {"stream", "commit", "done"}

\* C9: when executemany fails and the batch is retried row by row, every row
\* of the batch that the job inserted into the target is counted exactly once,
\* so whenever _insert_batch has returned, the inserted total of the table
\* equals the number of rows the job has added to the target.
C9_InsertedEqualsRowsAdded ==
    TjOutsideInsertBatch => tjResult.inserted = Cardinality(tjAdded)

\* the job has ended
TjDone == tjPc = "done"

\* C10: a table job ends with status success when no error was recorded, with
\* status warning when an error of a batch or a row was recorded and the commit
\* was executed, and with status error when the schema fetch, the creation of
\* the table or the row count failed, and then no row was fetched or inserted.
C10_FinalStatus ==
    TjDone =>
        /\ tjResult.errors = <<>> => tjResult.status = "success"
        /\ (tjResult.errors # <<>> /\ tjCommitted) =>
               /\ tjResult.status = "warning"
               /\ Range(tjResult.errors) \subseteq {"batch", "row"}
        /\ tjRaised \cap {"schema", "create", "count"} # {} =>
               /\ tjResult.status = "error"
               /\ tjResult.fetched = 0
               /\ tjResult.inserted = 0
               /\ tjAdded = {}

\* a job that recorded the error of a batch and committed has ended
C10_Witness ==
    /\ TjDone
    /\ tjCommitted
    /\ "batch" \in Range(tjResult.errors)
    /\ tjResult.status = "warning"
    /\ tjResult.inserted > 0

\* ---------------------------------------------- warehouse table job: claims
\* a commit conflict as the claims word it
CommitConflict(text) ==
    \/ "commitfailed" \in text
    \/ "metadata location" \in text
    \/ "commit" \in text /\ "conflict" \in text

\* min(200 * 2^n, 120000)
Backoff(n) == IF 200 * (2 ^ n) < 120000 THEN 200 * (2 ^ n) ELSE 120000

\* C11: execute_batch attempts a batch at most 8 times; an attempt after the
\* first follows a failure that was a commit conflict, and the wait before
\* it, after the n-th failed attempt (n from 0), was min(200 * 2^n, 120000)
\* ms times a jitter between 0.5 and 1.5; a batch that ended on another
\* error has added exactly one line to the error list, and no batch adds
\* more than one.
C11_ExecuteBatchRetries ==
    \A b \in DOMAIN whBatches :
        LET batch == whBatches[b]
        IN /\ batch.attempt + 1 <= 8
           /\ batch.st = "running" /\ batch.attempt >= 1
                => /\ CommitConflict(batch.err)
                   /\ batch.wait = Backoff(batch.attempt - 1)
                   /\ \A jitter \in JitterTenths :
                         /\ wait_tenths(batch.wait, jitter)
                               >= 5 * Backoff(batch.attempt - 1)
                         /\ wait_tenths(batch.wait, jitter)
                               <= 15 * Backoff(batch.attempt - 1)
           /\ batch.st = "failed" => batch.lines = 1
           /\ batch.st # "failed" => batch.lines = 0

\* one batch gave up on its first attempt with an error that is no conflict,
\* another is on its eighth attempt after seven conflicts
C11_Witness ==
    /\ whPc = "insert"
    /\ \E b \in DOMAIN whBatches :
          /\ whBatches[b].st = "failed" /\ whBatches[b].attempt = 0
          /\ ~CommitConflict(whBatches[b].err) /\ whBatches[b].lines = 1
    /\ \E b \in DOMAIN whBatches :
          /\ whBatches[b].st = "running" /\ whBatches[b].attempt = 7
          /\ whBatches[b].wait = 12800

\* the batch met an error that is no conflict, or an eighth conflict
BatchBroken(batch) ==
    batch.st = "failed" /\ (~CommitConflict(batch.err) \/ batch.attempt + 1 >= 8)

\* C12: once the batches of an insert_select job are submitted, the job
\* ends; and if no batch met more than 7 conflicts in a row or another
\* error, every batch was inserted, the status is success and rows_inserted
\* is the number of extracted rows.
C12_ConflictsWithinBudgetSucceed ==
    (whPc = "insert") ~>
        /\ whPc = "done"
        /\ (\A b \in DOMAIN whBatches : ~BatchBroken(whBatches[b]))
             => /\ \A b \in DOMAIN whBatches : whBatches[b].st = "ok"
                /\ whResult.status = "success"
                /\ whResult.rows_inserted = whData

\* a job of two batches, one of them inserted on its eighth attempt, that
\* returned success with every extracted row counted
C12_Witness ==
    /\ whPc = "done"
    /\ Len(whBatches) = 2
    /\ \A b \in DOMAIN whBatches : whBatches[b].st = "ok"
    /\ \E b \in DOMAIN whBatches : whBatches[b].attempt = 7
    /\ whResult.status = "success"
    /\ whResult.rows_inserted = whData

\* C13: a job of migrate_table or migrate_schema whose catalog or target
\* catalog (the catalog when unset) is an Iceberg one and whose method is
\* s3_copy reports method insert_select on its result; any other job
\* reports the configured method.
C13_ReportedMethod ==
    whPc = "done" /\ whJob.entry = "migrate" /\ whResult # NoResult
        => whResult.method =
              IF /\ whJob.method = "s3_copy"
                 /\ \/ whJob.catalog = "iceberg"
                    \/ whJob.target_catalog = "iceberg"
                    \/ whJob.target_catalog = "none" /\ whJob.catalog = "iceberg"
              THEN "insert_select" ELSE whJob.method

\* C14: with dry_run nothing is written to or deleted from the target
\* object store, no DROP, CREATE, INSERT or CALL is executed, and a
\* migration that returns without an error or a skip has status dry_run.
C14_DryRunHasNoEffect ==
    whJob # <<>> /\ whJob.dry_run
        => /\ whEffects = {}
           /\ whPc = "done" /\ whResult.status \notin {"none", "error", "skipped"}
                => whResult.status = "dry_run"

\* C18: when an object copy of an s3_copy job failed, or a batch of an
\* insert_select job failed for good, the result carries an error and its
\* status is not success.
C18_FailuresReachTheResult ==
    /\ whPc = "done"
    /\ \/ whCopy # <<>> /\ whCopy.failed > 0
       \/ \E b \in DOMAIN whBatches : whBatches[b].st = "failed"
    => whResult.error /\ whResult.status # "success"

\* C19: after migrate_table_insert_select has had its rows, the cache entry
\* is gone only if delete_cache_on_success is set, the status is success and
\* every batch was inserted.
C19_CacheDeletedOnlyOnSuccess ==
    /\ whPc = "done"
    /\ whData >= 0
    /\ whResult.status \in {"success", "error"}
    /\ ~whCache
    => /\ whJob.delete_cache_on_success
       /\ whResult.status = "success"
       /\ \A b \in DOMAIN whBatches : whBatches[b].st = "ok"

\* ------------------------------------------------------------ copier: claims
\* the objects of the directory sub-tree of a prefix: key = prefix + "/" + tail
InDirectory(key, prefix) ==
    /\ Len(key) > Len(prefix) + 1
    /\ SubSeq(key, 1, Len(prefix) + 1) = prefix \o <<"/">>

TailOf(key, prefix) == SubSeq(key, Len(prefix) + 2, Len(key))

\* C16: when copy_prefix(p -> q) returned success and verify_copy(p, q) was
\* run, the report has status ok, as many target files as source files, and
\* empty missing, extra and size-mismatch lists.
C16_VerifyAfterCopy ==
    cpPc = "verified" /\ cpResults[1].status = "success"
        => /\ cpVerify.status = "ok"
           /\ cpVerify.source_files = cpVerify.target_files
           /\ cpVerify.missing_in_target = {}
           /\ cpVerify.extra_in_target = {}
           /\ cpVerify.size_mismatch = {}

\* the calls paired with the source objects of their directory sub-trees
DirectoryPairs ==
    {pr \in (DOMAIN cpCalls) \X (DOMAIN cpSource) :
        InDirectory(pr[2], cpCalls[pr[1]].source_prefix)}

MountedKey(pr) ==
    cpCalls[pr[1]].target_prefix \o <<"/">>
        \o TailOf(pr[2], cpCalls[pr[1]].source_prefix)

\* C17: when copy_prefix or copy_partitions returned without a failed copy,
\* there is one result per call, in the order of the calls, and the target
\* holds exactly the objects dst_prefix + "/" + tail, each a copy of its
\* source object, for the source objects src_prefix + "/" + tail of each call.
C17_CopiesTheDirectoryTree ==
    /\ cpPc = "returned"
    /\ \A i \in DOMAIN cpCalls : ~cpCalls[i].dry_run
    /\ \A i \in DOMAIN cpResults : cpResults[i].status \in {"success", "skipped"}
    => /\ Len(cpResults) = Len(cpCalls)
       /\ \A i \in DOMAIN cpCalls :
             cpResults[i].source_path = cpCalls[i].source_prefix
       /\ DOMAIN cpTarget = {MountedKey(pr) : pr \in DirectoryPairs}
       /\ \A pr \in DirectoryPairs :
             MountedKey(pr) \in DOMAIN cpTarget
                => cpTarget[MountedKey(pr)] = cpSource[pr[2]]

\* ------------------------------------------------------------- cache: claims
\* save number `by` has returned
Completed(by) == by = 0 \/ caSaver[by] = "returned"

\* C20: whenever exists() is true, the data file and the metadata file that
\* load() reads are whole and were written by one and the same save, which
\* has returned.
C20_ExistsMeansOneCompletedSave ==
    (caSaver # <<>> /\ exists)
        => \E by \in 0..MaxSavers :
              /\ caData = FileOf(by, TRUE)
              /\ caMeta = FileOf(by, TRUE)
              /\ Completed(by)

\* ------------------------------------------------------ WHERE helpers: claims
\* w is null, empty or whitespace-only
Blank(w) == w = None \/ \A k \in DOMAIN w : w[k] \in Whitespace

\* t is w.strip() for a w that is not blank: w is t between two runs of
\* whitespace, and t neither starts nor ends with whitespace
Stripped(w, t) ==
    /\ t # <<>>
    /\ t[1] \notin Whitespace
    /\ t[Len(t)] \notin Whitespace
    /\ \E a, b \in 0..Len(w) :
          /\ a + b <= Len(w)
          /\ t = SubSeq(w, a + 1, Len(w) - b)
          /\ \A k \in 1..a : w[k] \in Whitespace
          /\ \A k \in (Len(w) - b + 1)..Len(w) : w[k] \in Whitespace

NormalizeReturned == fnPc = "done" /\ fnCall.fn = "normalize_where"

\* C25 as stated: for any WHERE text w (including null), normalize_where(w)
\* is "1=1" if and only if w is null, empty or whitespace-only, and otherwise
\* it is w.strip().
C25_OneEqualsOneIffBlank ==
    NormalizeReturned =>
        /\ (fnResult = OneEqualsOne) <=> Blank(fnCall.where)
        /\ ~Blank(fnCall.where) => Stripped(fnCall.where, fnResult)

\* C25 amended: for any WHERE text w (including null), normalize_where(w) is
\* "1=1" if w is null, empty or whitespace-only, and w.strip() otherwise
\* (which is "1=1" again when w is "1=1" between whitespace).
C25_NormalizeWhere ==
    NormalizeReturned =>
        IF Blank(fnCall.where) THEN fnResult = OneEqualsOne
        ELSE Stripped(fnCall.where, fnResult)

\* C25 witness: a text that is not blank and has whitespace to strip is
\* normalized to "1=1"
C25_Witness ==
    /\ NormalizeReturned
    /\ ~Blank(fnCall.where)
    /\ fnCall.where # fnResult
    /\ fnResult = OneEqualsOne

BuildReturned == fnPc = "done" /\ fnCall.fn = "build_user_id_where"

\* the ids in decimal, separated by a comma and a space
RECURSIVE IdsText(_)
IdsText(ids) ==
    IF ids = <<>> THEN <<>>
    ELSE IF Tail(ids) = <<>> THEN str(Head(ids))
    ELSE str(Head(ids)) \o <<",", " ">> \o IdsText(Tail(ids))

\* `user_id IN (<ids>)`, after `(<normalize_where(w)>) AND ` unless the
\* normalized w is "1=1"
UserFilter(ids, w) ==
    LET condition == UserIdIn \o IdsText(ids) \o <<")">>
    IN  IF normalize_where(w) = OneEqualsOne THEN condition
        ELSE <<"(">> \o normalize_where(w) \o <<")">> \o And \o condition

\* C26 as stated: for any list of user ids and any WHERE text w,
\* build_user_id_where(ids, w) is `user_id IN (<ids>)` when normalize_where(w)
\* is "1=1" and `(<normalize_where(w)>) AND user_id IN (<ids>)` otherwise.
C26_UserFilterForAnyList ==
    BuildReturned => fnResult = UserFilter(fnCall.user_ids, fnCall.where)

\* C26 amended: for any non-empty list of user ids and any WHERE text w,
\* build_user_id_where(ids, w) is `user_id IN (<ids>)` when normalize_where(w)
\* is "1=1" and `(<normalize_where(w)>) AND user_id IN (<ids>)` otherwise; for
\* the empty list it is normalize_where(w).
C26_UserFilter ==
    BuildReturned =>
        IF fnCall.user_ids = <<>> THEN fnResult = normalize_where(fnCall.where)
        ELSE fnResult = UserFilter(fnCall.user_ids, fnCall.where)

\* C26 witness: two ids are joined to a WHERE text that had to be stripped
C26_Witness ==
    /\ BuildReturned
    /\ Len(fnCall.user_ids) = 2
    /\ normalize_where(fnCall.where) # OneEqualsOne
    /\ normalize_where(fnCall.where) # fnCall.where
    /\ Len(fnResult) > Len(fnCall.where)

\* --------------------------------------------------- relational plan: claims
\* expand_dynamic_databases has returned for the dynamic entry of the plan
Expanded == plConfig.entry.kind = "dynamic" /\ plPc \in {"jobs", "finished"}

\* the text with every {placeholder} of the pattern replaced by the value
Substituted(text, value) ==
    replace(text,
            <<"{">> \o search_placeholder(plConfig.entry.name) \o <<"}">>,
            str(value))

\* C21: for a lookup returning the values v1..vn (the first column of each
\* row), expand_dynamic_databases produces exactly n database jobs in that
\* order, the i-th with the source name = the pattern with its placeholder
\* replaced by vi and the target name = target_pattern with the same
\* replacement (none when target_pattern is absent or empty), all carrying the
\* mode, exclude list, tables, where and limit of the dynamic entry; an empty
\* lookup produces zero jobs. (The pattern has a {placeholder}.)
C21_ExpandDynamicDatabases ==
    LET entry == plConfig.entry
        rows == entry.rows
    IN  Expanded =>
            /\ rows = <<>> => plConfigs = <<>>
            /\ search_placeholder(entry.name) # None =>
                /\ Len(plConfigs) = Len(rows)
                /\ \A i \in DOMAIN plConfigs :
                      /\ plConfigs[i].name = Substituted(entry.name, rows[i][1])
                      /\ plConfigs[i].target_name =
                            IF entry.target_pattern \in {None, <<>>} THEN None
                            ELSE Substituted(entry.target_pattern, rows[i][1])
                      /\ plConfigs[i].mode = entry.mode
                      /\ plConfigs[i].exclude = entry.exclude
                      /\ plConfigs[i].tables = entry.tables
                      /\ plConfigs[i].where = entry.where
                      /\ plConfigs[i].limit = entry.limit

\* C21 witness: two rows with different first columns gave two jobs with
\* different source names and target names built from the target pattern
C21_Witness ==
    /\ Expanded
    /\ Len(plConfigs) = 2
    /\ plConfigs[1].name # plConfigs[2].name
    /\ plConfigs[1].name = <<"u", "7">>
    /\ plConfigs[2].target_name = <<"t", "1", "2">>
    /\ plConfigs[2].where = <<"a">>

\* the modes a database entry may name (config.py line 102 also lists
\* "config", which no code reads)
KnownModes == {"all", "tables"}

\* the plan is malformed, or its dynamic pattern has no {placeholder}, or its
\* entry names an unknown mode
BadPlan ==
    \/ plPlan.malformed
    \/ plPlan.entry.kind = "dynamic"
          /\ search_placeholder(plPlan.entry.name) = None
    \/ plPlan.entry.mode \notin KnownModes

\* C22: a plan that is malformed, that has a dynamic database pattern without
\* a {placeholder}, or that names an unknown mode is reported as a
\* configuration error at load time, before any database connection is opened
\* or any query (the lookup query included) is executed.
C22_ConfigurationErrorsAtLoad ==
    BadPlan =>
        /\ plPc \in {"load", "raised"}
        /\ plPc = "raised" => plReport = "load"
        /\ plIo = {}

\* the effective exclude_date_tables flag of the jobs of the plan: the value
\* the entry sets, and the top-level value of the plan otherwise
EffectiveExcludeDate ==
    IF plPlan.entry.exclude_date_tables # "unset"
    THEN plPlan.entry.exclude_date_tables = "true"
    ELSE flag(plPlan.exclude_date_tables, plan_exclude_date_tables_default)

Listed(names) == {names[k] : k \in DOMAIN names}

\* C30: in ALL mode a date-suffixed table is excluded from the migrated set
\* exactly when the effective exclude_date_tables flag is true (the value of
\* the database entry when the entry sets one, the top-level value of the plan
\* otherwise); every table that is neither date-suffixed and excluded nor in
\* the exclude list is migrated; explicit-tables mode never applies the date
\* filter.
C30_DateTablesExcludedByEffectiveFlag ==
    \A k \in DOMAIN plSelected :
        LET db_config == plConfigs[k]
        IN  /\ db_config.mode = "all" =>
                Listed(plSelected[k]) =
                    {t \in Listed(SourceTables) :
                        /\ ~(EffectiveExcludeDate /\ is_date_suffixed_table(t))
                        /\ t \notin Listed(db_config.exclude)}
            /\ (db_config.mode = "tables" /\ db_config.tables # <<>>) =>
                plSelected[k] = db_config.tables

\* ---------------------------------------------------- warehouse run: claims
\* a table job of the plan ended with status error
ErrorResult == \E k \in DOMAIN wrResults : wrResults[k].status = "error"

\* C24: the run command exits with code 0 when no job ended in error (no
\* result has status error and no job raised) and with a non-zero code when
\* at least one job result has status error.
C24_ExitCodeTellsErrors ==
    wrExit # -1 => (wrExit = 0 <=> (~ErrorResult /\ wrFailed = {}))

\* the results run and migrate_schema hold so far
WrAllResults == wrResults \o wrSummary

\* C27: when stop_on_error is set in a warehouse plan, processing halts at the
\* first table job that ends with status error: no later table job or schema
\* job of the plan is started.
C27_StopOnError ==
    wrPlan.stop_on_error =>
        \A k \in DOMAIN WrAllResults :
            WrAllResults[k].status = "error" => wrStarted <= WrAllResults[k].job

\* C28: in the warehouse orchestrator a metadata failure on one table yields
\* an error result for that table only, and every remaining table of the plan
\* is still processed: no exception leaves run, and at the end of run every
\* table whose metadata extraction raised has one result, with status error.
C28_MetadataFailureIsOneErrorResult ==
    /\ wrPc # "raised"
    /\ wrPc = "finished" =>
          /\ wrStarted = wrPlan.tables + wrPlan.schema_tables
          /\ \A j \in wrFailed :
                \E k \in DOMAIN wrResults :
                    wrResults[k].job = j /\ wrResults[k].status = "error"

\* C29: for a warehouse plan run the concurrency bounds are the configured
\* ones: the batch INSERTs in flight for one EXTRACT_LOAD table never exceed
\* the plan's parallel_inserts, each batch holds at most the plan's batch_size
\* rows, and the partition copies in flight for one table never exceed the
\* plan's parallel_partitions.
C29_PlanBoundsApply ==
    /\ wrJob.method = "insert_select" =>
          /\ wrJob.in_flight <= wrPlan.parallel_inserts
          /\ \A k \in DOMAIN wrJob.batches :
                wrJob.batches[k] <= wrPlan.batch_size
    /\ wrJob.method = "s3_copy" =>
          wrJob.in_flight <= wrPlan.parallel_partitions

\* ------------------------------------------------- table job: counts, batches
\* the job ended after its stream completed: status success or warning
TjStreamCompleted == TjDone /\ tjResult.status \in {"success", "warning"}

\* this step is an executemany that succeeded: _insert_batch returns from its
\* try block, without a retry
TjExecuteManySucceeds == tjPc = "batch" /\ tjPc' = "stream"

\* C31: at the end of a table job whose stream completed (status success or
\* warning), fetched = inserted + skipped, 0 <= inserted <= fetched and
\* skipped >= 0; and a batch whose executemany succeeds adds the driver's
\* rowcount (the rows that entered the target) to inserted and the rest of the
\* batch to skipped, and records no error.
C31_CountsAddUp ==
    /\ [](TjStreamCompleted =>
            /\ tjResult.fetched = tjResult.inserted + tjResult.skipped
            /\ 0 <= tjResult.inserted
            /\ tjResult.inserted <= tjResult.fetched
            /\ tjResult.skipped >= 0)
    /\ [][TjExecuteManySucceeds =>
            LET rows == Cardinality(tjTarget' \ tjTarget)
            IN  /\ tjResult'.inserted = tjResult.inserted + rows
                /\ tjResult'.skipped = tjResult.skipped + Len(tjBatch) - rows
                /\ tjResult'.errors = tjResult.errors]_vars

\* C31 witness: a table of one row whose key is in the target already ended
\* with inserted 0, skipped 1 and no error
C31_Witness ==
    /\ TjStreamCompleted
    /\ tjRows = 1
    /\ tjRaised = {}
    /\ tjResult.fetched = 1
    /\ tjResult.inserted = 0
    /\ tjResult.skipped = 1
    /\ tjResult.errors = <<>>
    /\ tjResult.status = "success"

\* the rows of the source table that are not in the target
TjAbsentRows == (1..tjRows) \ tjTarget

\* C32: the error list of a table job result holds at most 5 strings in every
\* reachable state; an error after the fifth is not recorded, but the row that
\* failed is still counted as skipped: when the stream has completed, every
\* row that did not reach the target is among the skipped ones.
C32_ErrorListBounded ==
    /\ Len(tjResult.errors) <= 5
    /\ TjStreamCompleted => tjResult.skipped >= Cardinality(TjAbsentRows)

\* C32 witness: three batches of one row each failed in executemany and again
\* in the per-row retry: six errors, five recorded, three rows skipped
C32_Witness ==
    /\ TjStreamCompleted
    /\ tjRows = 3
    /\ tjBatchSize = 1
    /\ TjAbsentRows = 1..3
    /\ Len(tjResult.errors) = 5
    /\ tjResult.skipped = 3
    /\ tjResult.inserted = 0

\* the concatenation of a sequence of batches
RECURSIVE Concat(_)
Concat(batches) == IF batches = <<>> THEN <<>> ELSE Head(batches) \o Concat(Tail(batches))

\* the batches made so far: the ones passed to executemany and the one being
\* filled or about to be passed (during the retry the batch is the last one
\* passed)
TjBatchesMade == IF tjPc = "rows" \/ tjBatch = <<>> THEN tjBatches ELSE Append(tjBatches, tjBatch)

\* the rows the cursor yielded so far, in cursor order
TjYielded == [i \in 1..tjResult.fetched |-> i]

\* C33: every row the source cursor yielded is in exactly one batch; a batch
\* holds at most batch_size rows, and batches are submitted in cursor order;
\* a batch is submitted only after the insert of the previous batch, with its
\* per-row retry, has returned (its rows are counted inserted or skipped); and
\* the final partial batch is submitted before the commit.
C33_BatchesInOrder ==
    /\ [](/\ Concat(TjBatchesMade) = TjYielded
          /\ \A k \in DOMAIN TjBatchesMade :
                Len(TjBatchesMade[k]) \in 1..tjBatchSize
          /\ (tjPc = "commit" \/ tjCommitted) =>
                Concat(tjBatches) = [i \in 1..tjRows |-> i])
    /\ [][tjBatches' # tjBatches =>
            /\ tjBatches' = Append(tjBatches, tjBatch)
            /\ tjPc \notin {"rows", "commit", "done"}
            /\ tjResult.inserted + tjResult.skipped = Len(Concat(tjBatches))]_vars

\* C33 witness: three rows in batches of two were committed; the job passed
\* <<1, 2>> and then the partial batch <<3>>, and one of them was retried row
\* by row
C33_Witness ==
    /\ tjCommitted
    /\ tjRows = 3
    /\ tjBatchSize = 2
    /\ tjBatches = <<(<<1, 2>>), (<<3>>)>>
    /\ "executemany" \in tjRaised

\* ------------------------------------------------ table job: truncate, commit
\* the job passed the preparation of the table and the row count
TjPassedCount == tjPc \notin {"schema", "create", "count"} /\ tjRaised \cap {"schema", "create", "count"} = {}

\* the job reached the loop over the source cursor
TjReachedStream == tjPc \in {"stream", "batch", "rows", "commit"} \/ tjCommitted \/ tjRaised \cap {"fetch", "commit"} # {}

\* TRUNCATE is executed before and never after an INSERT of the job, and never
\* without the flag
TjTruncateBeforeInserts ==
    /\ [](~tjTruncate => tjTruncates = 0)
    /\ [][tjTruncates' # tjTruncates => tjBatches = <<>> /\ tjAdded = {}]_vars
    /\ [][(tjTruncate /\ tjBatches' # tjBatches) => tjTruncates = 1]_vars

\* the statement of C36 as it was made: with the flag, every job that passed
\* the preparation and the count and has ended executed TRUNCATE exactly once
C36_TruncateOnceAfterCount ==
    /\ []((tjTruncate /\ TjDone /\ TjPassedCount) => tjTruncates = 1)
    /\ TjTruncateBeforeInserts

\* C36: with the truncate flag a table job executes TRUNCATE TABLE at most
\* once, never after an INSERT of the job, and exactly once, before the first
\* INSERT, when it reaches the loop over the source cursor; a job that found
\* no rows to copy or failed before the loop executes none; without the flag
\* TRUNCATE is never executed.
C36_TruncateOnceBeforeStream ==
    /\ [](tjTruncate => tjTruncates = (IF TjReachedStream THEN 1 ELSE 0))
    /\ TjTruncateBeforeInserts

\* C36 witness: a job with the flag truncated the target, inserted rows and
\* committed; the target holds the rows of this job only
C36_Witness ==
    /\ tjTruncate
    /\ tjCommitted
    /\ tjTruncates = 1
    /\ tjResult.inserted > 0
    /\ tjTarget = tjAdded

\* C40: the rows a table job reports as inserted are committed on the target:
\* the commit is executed once, after the last insert (no batch is submitted
\* after it), and a job that ends without having executed the commit, because
\* an exception was raised after some batches were inserted, reports
\* inserted = 0.
C40_InsertedIsCommitted ==
    /\ []((TjDone /\ ~tjCommitted) => tjResult.inserted = 0)
    /\ [][tjCommitted => (tjCommitted' /\ tjBatches' = tjBatches)]_vars
    /\ [][tjCommitted' # tjCommitted =>
            (tjPc = "commit" /\ Concat(tjBatches) = TjYielded)]_vars

\* ------------------------------------------------- object copy job: claims
\* the positions of the log that hold one of the entries
OcAt(entries) == {i \in DOMAIN ocLog : ocLog[i] \in entries}
OcBefore(first, then) == \A i \in OcAt(first), k \in OcAt(then) : i < k
OcCreates == {"CREATE TABLE", "CALL register_table"}
OcSync == "CALL sync_partition_metadata"

\* the call of sync_partition_metadata raised
OcSyncFailed ==
    \E i \in OcAt({OcSync}) : i < Len(ocLog) /\ ocLog[i + 1] = "raised"

\* C34: in an object copy job without dry_run the delete of the target prefix
\* completes before the first object is copied; every object copy has
\* completed before the target table is dropped or created; DROP TABLE
\* precedes the creation of the table; sync_partition_metadata is called only
\* for a partitioned table on a Hive target, after CREATE TABLE succeeded; and
\* when it fails the result has status success.
C34_StepsInOrder ==
    /\ [](/\ OcBefore({"delete_prefix"}, {"put_object"})
          /\ OcAt({"put_object"}) # {} => OcAt({"delete_prefix"}) # {}
          /\ OcBefore({"put_object"}, OcCreates \cup {"DROP TABLE"})
          /\ OcBefore({"DROP TABLE"}, OcCreates)
          /\ \A i \in OcAt({OcSync}) :
                /\ ocJob.partitioned
                /\ ~is_iceberg(ocJob.target_catalog)
                /\ i > 1
                /\ ocLog[i - 1] = "CREATE TABLE"
          /\ (ocPc = "done" /\ OcSyncFailed) => ocResult.status = "success")
    /\ [][(ocLog' # ocLog /\ ocLog'[Len(ocLog')] \notin {"delete_prefix", "put_object"}) =>
            \A t \in ocTasks : t.st # "pending"]_vars
    /\ [][(ocLog' # ocLog /\ ocLog'[Len(ocLog')] = "delete_prefix") =>
            ocTasks = {}]_vars

\* C34 witness: a job emptied the target prefix, copied an object, dropped
\* and created the table of a partitioned Hive target, and ended with status
\* success although sync_partition_metadata raised
C34_Witness ==
    /\ ocPc = "done"
    /\ OcAt({"delete_prefix"}) # {}
    /\ OcAt({"put_object"}) # {}
    /\ OcAt({"DROP TABLE"}) # {}
    /\ OcAt({"CREATE TABLE"}) # {}
    /\ OcSyncFailed
    /\ ocResult.status = "success"

\* the key is in the directory of the prefix: the prefix, a slash and a tail
OcInDirectory(k, prefix) ==
    /\ Len(k) > Len(prefix) + 1
    /\ SubSeq(k, 1, Len(prefix) + 1) = prefix \o <<"/">>

\* the keys of a bucket that a step removes
OcRemoved(s) == DOMAIN ocBuckets[s] \ DOMAIN ocBuckets'[s]

\* C38: the delete before the copy removes only objects of the target table's
\* own directory (the table prefix, a slash and a tail) in the target bucket;
\* the objects of every other table, also of one whose directory name extends
\* the prefix, stay as they are.
C38_DeleteOwnDirectoryOnly ==
    [][\A s \in DOMAIN ocBuckets :
          /\ OcRemoved(s) # {} => s = target_store(ocJob)
          /\ \A k \in OcRemoved(s) : OcInDirectory(k, SourcePrefix)
          /\ \A k \in DOMAIN ocBuckets[s] \ OcRemoved(s) :
                ~OcInDirectory(k, SourcePrefix) => ocBuckets'[s][k] = ocBuckets[s][k]]_vars

\* C39: an object copy job never deletes or overwrites an object at the
\* location of the source table, whatever the target bucket and the two
\* endpoints are, also when the target bucket is the source bucket on the
\* same endpoint.
C39_SourceObjectsUntouched ==
    [][\A k \in DOMAIN ocBuckets[source_store] :
          OcInDirectory(k, SourcePrefix) =>
              /\ k \in DOMAIN ocBuckets'[source_store]
              /\ ocBuckets'[source_store][k] = ocBuckets[source_store][k]]_vars

\* ------------------------------------------------ extract-load jobs: claims
\* every batch of the job was inserted
ElNoBatchFailed == elInserted = elData

\* C37: when an extract-load job with filter w ends with status success, the
\* rows it inserted into the target are exactly the source rows selected with
\* w: whatever jobs ran before on the same source table, an entry of the
\* cache written under another filter is never loaded in the place of the
\* extraction with w. (Stated for the jobs that lost no batch.)
C37_InsertedRowsMatchFilter ==
    (elPc = "done" /\ elResult.status = "success" /\ ElNoBatchFailed) =>
        /\ elInserted = select(elJob.where)
        /\ elResult.rows_inserted = Cardinality(select(elJob.where))

\* ------------------------------------------------------------ sessions: claims
\* C35: every session a table job opens is closed or released when the job
\* returns, on success and on every failure: the source connection and the
\* pooled target connection of a relational table job; the client of every
\* attempt of execute_batch, also of an attempt that fails and is retried;
\* and the pools of the migrator when a database job ends, also when it
\* raises.
C35_SessionsReleased ==
    /\ TjDone => (~tjSrcOpen /\ ~tjTgtHeld)
    /\ ebPc \in {"loop", "returned"} => ebOpen = 0
    /\ \A i \in DOMAIN job : job[i].pc = "done" => job[i].pools # "open"

\* C35 witness: in its last attempt execute_batch connected and the INSERT
\* raised a commit conflict as in the attempts before; the call returned 0
\* with no connection open
C35_Witness ==
    /\ ebPc = "returned"
    /\ ebReturn = 0
    /\ ebAttempt = max_retries - 1
    /\ ebClient = "closed"
    /\ ebOpen = 0

====
